---------------------------- MODULE Spec2Model ----------------------------
(***************************************************************************)
(* FrightFate backend: the narrative-and-elimination engine.               *)
(*                                                                         *)
(*   backend/app/services/ai_service.py   AIService (oracle + fallback)    *)
(*   backend/app/routes/game.py           the HTTP handlers                *)
(*   backend/app/models/game.py           the stored tables                *)
(*                                                                         *)
(* Texts are sequences of one-character strings, so that str.lower() and   *)
(* the `keyword in answer` substring tests are computed, not assumed.      *)
(* JSON values are tagged: [num |-> n], [str |-> s], [bool |-> b],         *)
(* [null |-> TRUE]; a dict is a function from its present keys.            *)
(***************************************************************************)
EXTENDS Integers, Sequences, FiniteSets, TLC

VARIABLES
    answers,    \* the player_answers table, in id order (row i has id i)
    marked,     \* history: ids of rows on whose object is_eliminated was set
    dead,       \* history: players with a submission evaluated instant_death
    resp,       \* the response of the last completed request
    fnIn,       \* argument of the function under study (function specs)
    fnOut       \* its result, Unset before the call

vars == <<answers, marked, dead, resp, fnIn, fnOut>>

Unset == [none |-> TRUE]

(***************************************************************************)
(* Bounds of the model.                                                    *)
(***************************************************************************)
MaxWords == 3        \* words in a generated answer text
MaxPriorPoor == 3    \* previous_poor_choices passed to the fallback scorer
MaxReplyTokens == 3  \* tokens in a generated oracle reply text
MaxHistory == 3      \* earlier answers in a drawn player history
MaxQuestion == 2     \* question numbers a request may name
MaxChoices == 5
MaxRoster == 3
MaxFrames == 2      \* earlier choices handed to the pattern classifier

(***************************************************************************)
(* Text helpers.                                                           *)
(***************************************************************************)
Spell(w) ==
    CASE w = "carefully" -> <<"c","a","r","e","f","u","l","l","y">>
      [] w = "Quietly" -> <<"Q","u","i","e","t","l","y">>
      [] w = "observe" -> <<"o","b","s","e","r","v","e">>
      [] w = "run" -> <<"r","u","n">>
      [] w = "breakfast" -> <<"b","r","e","a","k","f","a","s","t">>
      [] w = "scream" -> <<"s","c","r","e","a","m">>
      [] w = "think" -> <<"t","h","i","n","k">>
      [] w = "check?" -> <<"c","h","e","c","k","?">>
      [] w = "I" -> <<"I">>
      [] w = "and" -> <<"a","n","d">>
      [] w = "the" -> <<"t","h","e">>
      [] w = "room" -> <<"r","o","o","m">>
      [] w = "charge" -> <<"c","h","a","r","g","e">>
      [] w = "attack" -> <<"a","t","t","a","c","k">>
      [] w = "rush" -> <<"r","u","s","h">>
      [] w = "fast" -> <<"f","a","s","t">>
      [] w = "grab" -> <<"g","r","a","b">>
      [] w = "fight" -> <<"f","i","g","h","t">>
      [] w = "slowly" -> <<"s","l","o","w","l","y">>
      [] w = "listen" -> <<"l","i","s","t","e","n">>
      [] w = "plan" -> <<"p","l","a","n">>
      [] w = "PANIC" -> <<"P","A","N","I","C">>
      [] w = "immediately" -> <<"i","m","m","e","d","i","a","t","e","l","y">>
      [] w = "strategy" -> <<"s","t","r","a","t","e","g","y">>
      [] w = "safe" -> <<"s","a","f","e">>
      [] w = "caution" -> <<"c","a","u","t","i","o","n">>
      [] w = "quietly" -> <<"q","u","i","e","t","l","y">>
      [] w = "panic" -> <<"p","a","n","i","c">>
      [] w = "consider" -> <<"c","o","n","s","i","d","e","r">>
      [] w = "ignore" -> <<"i","g","n","o","r","e">>
      [] w = "check" -> <<"c","h","e","c","k">>
      [] w = "look" -> <<"l","o","o","k">>
      [] w = "examine" -> <<"e","x","a","m","i","n","e">>
      [] w = "search" -> <<"s","e","a","r","c","h">>
      [] w = "prepare" -> <<"p","r","e","p","a","r","e">>
      [] w = "ready" -> <<"r","e","a","d","y">>
      [] w = "escape" -> <<"e","s","c","a","p","e">>
      [] w = "help" -> <<"h","e","l","p">>
      [] w = "freeze" -> <<"f","r","e","e","z","e">>
      [] w = "give up" -> <<"g","i","v","e"," ","u","p">>
      [] w = "surrender" -> <<"s","u","r","r","e","n","d","e","r">>

RECURSIVE Join(_)
\* the words separated by single spaces: the text a player types
Join(ws) ==
    IF ws = <<>> THEN <<>>
    ELSE IF Len(ws) = 1 THEN Spell(ws[1])
    ELSE Spell(ws[1]) \o <<" ">> \o Join(Tail(ws))

\* str.lower() on one character
LowerChar(c) ==
    CASE c = "A" -> "a" [] c = "B" -> "b" [] c = "C" -> "c" [] c = "D" -> "d"
      [] c = "E" -> "e" [] c = "F" -> "f" [] c = "G" -> "g" [] c = "H" -> "h"
      [] c = "I" -> "i" [] c = "J" -> "j" [] c = "K" -> "k" [] c = "L" -> "l"
      [] c = "M" -> "m" [] c = "N" -> "n" [] c = "O" -> "o" [] c = "P" -> "p"
      [] c = "Q" -> "q" [] c = "R" -> "r" [] c = "S" -> "s" [] c = "T" -> "t"
      [] c = "U" -> "u" [] c = "V" -> "v" [] c = "W" -> "w" [] c = "X" -> "x"
      [] c = "Y" -> "y" [] c = "Z" -> "z" [] OTHER -> c

\* a scorer that forgets lower(): the match becomes case-sensitive
LowerMutant(s) == s

\* answer.lower()
Lower(s) == [i \in 1..Len(s) |-> LowerChar(s[i])]

\* Python's `k in s` for strings: k occurs as a contiguous substring of s
Contains(s, k) ==
    \E i \in 1..(Len(s) - Len(k) + 1) :
        \A j \in 1..Len(k) : s[i + j - 1] = k[j]

Max(a, b) == IF a >= b THEN a ELSE b
Min(a, b) == IF a <= b THEN a ELSE b

\* dict.get(key, default)
Get(d, key, default) == IF key \in DOMAIN d THEN d[key] ELSE default

(***************************************************************************)
(* AIService._fallback_death_analysis                                      *)
(***************************************************************************)
reckless_keywords ==
    {"run", "charge", "attack", "rush", "fast", "immediately", "grab",
     "fight", "scream", "panic"}
cautious_keywords ==
    {"carefully", "slowly", "quietly", "observe", "listen", "plan",
     "strategy", "safe", "caution"}

\* sum(10 for word in keywords if word in answer_lower)
KeywordScore(keywords, answer_lower) ==
    10 * Cardinality({k \in keywords : Contains(answer_lower, Spell(k))})

\* base_score = max(0, min(100, 50 + cautious_score - reckless_score))
FallbackScore(answer) ==
    LET answer_lower == Lower(answer)
        reckless_score == KeywordScore(reckless_keywords, answer_lower)
        cautious_score == KeywordScore(cautious_keywords, answer_lower)
    IN  Max(0, Min(100, 50 + cautious_score - reckless_score))

\* the chain with rule 3 tested before rule 2 and an inclusive threshold
FallbackInstantDeathMutant(death_risk, previous_poor_choices, base_score) ==
    IF death_risk = "instant" /\ base_score < 40 THEN TRUE
    ELSE IF previous_poor_choices >= 3 /\ base_score <= 25 THEN TRUE
    ELSE IF death_risk = "high" /\ previous_poor_choices > 2 /\ base_score < 30
         THEN TRUE
    ELSE FALSE

\* the if / elif / elif chain that sets instant_death
FallbackInstantDeath(death_risk, previous_poor_choices, base_score) ==
    IF death_risk = "instant" /\ base_score < 40 THEN TRUE
    ELSE IF death_risk = "high" /\ previous_poor_choices >= 2 /\ base_score < 30
         THEN TRUE
    ELSE IF previous_poor_choices >= 3 /\ base_score < 25 THEN TRUE
    ELSE FALSE

\* "deadly" if instant_death else ("reckless" if base_score < 40 else ...)
FallbackChoiceType(instant_death, base_score) ==
    IF instant_death THEN "deadly"
    ELSE IF base_score < 40 THEN "reckless"
    ELSE IF base_score >= 60 THEN "cautious"
    ELSE "neutral"

FallbackDeathReason == "Reckless decision-making led to immediate danger"

FallbackDeathAnalysis(answer, death_risk, previous_poor_choices) ==
    LET base_score == FallbackScore(answer)
        instant_death ==
            FallbackInstantDeath(death_risk, previous_poor_choices, base_score)
    IN  [survival_score |-> [num |-> base_score],
         instant_death |-> [bool |-> instant_death],
         death_reason |-> IF instant_death THEN [str |-> FallbackDeathReason]
                          ELSE [null |-> TRUE],
         analysis |-> [str |-> IF instant_death
                               THEN "Your impulsive actions have caught up with you"
                               ELSE "Mixed decision-making with room for improvement"],
         story_progression |->
             [str |-> "Your choice has significant consequences for the story"],
         choice_classification |->
             [str |-> FallbackChoiceType(instant_death, base_score)],
         narrative_consequence |->
             [str |-> "The situation escalates dramatically based on your actions"]]

(***************************************************************************)
(* The oracle's reply and the extraction of one JSON object from it.       *)
(* A reply either raises (transport error, no content) or carries a text;  *)
(* the text is a sequence of tokens: the two braces, "members" (a          *)
(* well-formed run of key/value text, whose content is the reply's obj),   *)
(* "junk" (any text that is not JSON), and the two markdown fences        *)
(* "fence_json" and "fence" (three backticks, with and without json).     *)
(***************************************************************************)
PyNone == [null |-> TRUE]
EmptyDict == [k \in {} |-> PyNone]

Tokens == {"{", "}", "members", "junk", "fence_json", "fence"}

\* AIService._clean_json_response
CleanJsonResponse(text) ==
    LET t1 == IF text # <<>> /\ text[1] = "fence_json" THEN Tail(text)
              ELSE IF text # <<>> /\ text[1] = "fence" THEN Tail(text)
              ELSE text
    IN  IF t1 # <<>> /\ t1[Len(t1)] = "fence" THEN SubSeq(t1, 1, Len(t1) - 1)
        ELSE t1

SetMin(S) == CHOOSE x \in S : \A y \in S : x <= y
SetMax(S) == CHOOSE x \in S : \A y \in S : x >= y

\* re.search with the greedy brace pattern and DOTALL: the match runs from
\* the first opening brace to the last closing brace after it
JsonMatch(text) ==
    LET opens == {i \in 1..Len(text) : text[i] = "{"}
        closes == {i \in 1..Len(text) : text[i] = "}"}
    IN  IF opens # {} /\ closes # {} /\ SetMin(opens) < SetMax(closes)
        THEN [found |-> TRUE,
              group |-> SubSeq(text, SetMin(opens), SetMax(closes))]
        ELSE [found |-> FALSE]

Depth(m, i) ==
    Cardinality({j \in 1..i : m[j] = "{"}) - Cardinality({j \in 1..i : m[j] = "}"})

\* json.loads accepts the text: one object, braces balanced, nothing but
\* members and nested objects (each introduced by a key) inside
JsonLoadsOk(m) ==
    /\ Len(m) >= 2
    /\ m[1] = "{"
    /\ m[Len(m)] = "}"
    /\ \A i \in 1..Len(m) : m[i] \in {"{", "}", "members"}
    /\ \A i \in 2..Len(m) : m[i] = "{" => m[i - 1] = "members"
    /\ \A i \in 1..(Len(m) - 1) : Depth(m, i) >= 1
    /\ Depth(m, Len(m)) = 0

\* the dict json.loads returns for an accepted text
JsonLoads(m, obj) ==
    IF \E i \in 1..Len(m) : m[i] = "members" THEN obj ELSE EmptyDict

\* the shared extraction steps of every object-returning oracle call:
\* create(), .strip(), _clean_json_response, re.search, json.loads
ExtractObject(reply) ==
    IF "raise" \in DOMAIN reply THEN [exc |-> "oracle call failed"]
    ELSE LET json_match == JsonMatch(CleanJsonResponse(reply.text))
         IN  IF ~json_match.found THEN [nomatch |-> TRUE]
             ELSE IF JsonLoadsOk(json_match.group)
                  THEN [obj |-> JsonLoads(json_match.group, reply.obj)]
                  ELSE [exc |-> "JSONDecodeError"]

(***************************************************************************)
(* AIService._get_fallback_initial_scenario                                *)
(***************************************************************************)
HauntedHouseScenario ==
    [question_number |-> [num |-> 1],
     title |-> [str |-> "The Inheritance"],
     description |-> [str |-> "You've inherited your great aunt's Victorian mansion. As you step inside for the first time, the heavy door slams shut behind you. The key that worked moments ago now refuses to turn. Through dusty windows, you see your car, but the door won't budge. The house feels unnaturally cold, and you hear slow footsteps on the wooden floors above, though you came here alone. What do you do?"],
     survival_factors |-> [list |-> <<"logical_thinking", "caution", "investigation">>],
     story_context |-> [str |-> "Trapped in an inherited haunted mansion"],
     branching_paths |-> [list |-> <<"cautious", "aggressive", "escape">>]]

fallback_scenarios == [t \in {"haunted_house"} |-> HauntedHouseScenario]

\* a canned scenario that carries a risk level of its own
GetFallbackInitialScenarioMutant(theme) ==
    [k \in DOMAIN HauntedHouseScenario \cup {"death_risk_level"} |->
        IF k = "death_risk_level" THEN [str |-> "instant"]
        ELSE HauntedHouseScenario[k]]

\* scenarios.get(theme, scenarios["haunted_house"])
GetFallbackInitialScenario(theme) ==
    IF theme \in DOMAIN fallback_scenarios THEN fallback_scenarios[theme]
    ELSE fallback_scenarios["haunted_house"]

(***************************************************************************)
(* AIService.generate_initial_scenario / generate_next_scenario            *)
(***************************************************************************)
RECURSIVE SumChoiceScores(_)
\* sum(choice.get("score", 50) for choice in player_choices)
SumChoiceScores(player_choices) ==
    IF player_choices = <<>> THEN 0
    ELSE Get(Head(player_choices), "score", 50)
         + SumChoiceScores(Tail(player_choices))

\* a classifier that looks at the average before the poor choices
AnalyzeChoicePatternMutant(player_choices) ==
    LET total == SumChoiceScores(player_choices)
        n == Len(player_choices)
        poor_choices ==
            Cardinality({i \in 1..n : Get(player_choices[i], "score", 50) < 30})
    IN  IF n = 0 THEN "new_player"
        ELSE IF total >= 70 * n THEN "cautious_survivor"
        ELSE IF poor_choices >= 2 THEN "consistently_reckless"
        ELSE IF total >= 50 * n THEN "mixed_decisions"
        ELSE "poor_judgment"

\* AIService._analyze_choice_pattern.  avg_score is total / n in floating
\* point; for integer scores avg_score >= 70 exactly when total >= 70 * n
AnalyzeChoicePattern(player_choices) ==
    LET total == SumChoiceScores(player_choices)
        n == Len(player_choices)
        poor_choices ==
            Cardinality({i \in 1..n : Get(player_choices[i], "score", 50) < 30})
    IN  IF n = 0 THEN "new_player"
        ELSE IF poor_choices >= 2 THEN "consistently_reckless"
        ELSE IF total >= 70 * n THEN "cautious_survivor"
        ELSE IF total >= 50 * n THEN "mixed_decisions"
        ELSE "poor_judgment"

\* a generate_initial that lets its failures escape
GenerateInitialScenarioMutant(theme, reply) ==
    LET got == ExtractObject(reply)
    IN  IF "obj" \in DOMAIN got THEN [ret |-> got.obj]
        ELSE IF "nomatch" \in DOMAIN got
             THEN [exc |-> "No valid JSON found in response"]
        ELSE [ret |-> GetFallbackInitialScenario(theme)]

\* try: ... return scenario / raise Exception("No valid JSON ...")
\* except Exception: return self._get_fallback_initial_scenario(theme)
GenerateInitialScenario(theme, reply) ==
    LET got == ExtractObject(reply)
    IN  IF "obj" \in DOMAIN got THEN [ret |-> got.obj]
        ELSE [ret |-> GetFallbackInitialScenario(theme)]

\* a generate_next that answers its failures as generate_initial does
GenerateNextScenarioMutant(theme, question_number, reply) ==
    LET got == ExtractObject(reply)
    IN  IF "obj" \in DOMAIN got THEN [ret |-> got.obj]
        ELSE [ret |-> GetFallbackInitialScenario(theme)]

\* try: ... return scenario / return None   except Exception: return None
GenerateNextScenario(theme, question_number, reply) ==
    LET got == ExtractObject(reply)
    IN  IF "obj" \in DOMAIN got THEN [ret |-> got.obj]
        ELSE [ret |-> PyNone]

(***************************************************************************)
(* Inputs of the function specifications.                                  *)
(***************************************************************************)
Vocabulary ==
    {"carefully", "Quietly", "observe", "run", "breakfast", "scream",
     "think", "check?"}

ExampleWords == <<"I", "carefully", "and", "quietly", "observe", "the", "room">>

FixedWordLists ==
    {ExampleWords,
     <<"run", "charge", "attack", "rush", "fast", "grab", "fight">>,
     <<"immediately", "PANIC", "scream">>,
     <<"carefully", "slowly", "quietly", "observe", "listen", "plan">>,
     <<"strategy", "safe", "caution", "consider", "ignore">>}

WordLists ==
    FixedWordLists \cup UNION {[1..n -> Vocabulary] : n \in 0..MaxWords}

\* death_risk_level values of the prompt, and one the prompt does not name
DeathRisks == {"low", "medium", "high", "instant", "extreme"}

InitGame ==
    /\ answers = <<>>
    /\ marked = {}
    /\ dead = {}
    /\ resp = Unset

InitFn ==
    /\ fnIn = Unset
    /\ fnOut = Unset

UnchangedGame == UNCHANGED <<answers, marked, dead, resp>>

(***************************************************************************)
(* AIService.analyze_answer_with_death_check                               *)
(***************************************************************************)
IsNumber(v) == "num" \in DOMAIN v
IsString(v) == "str" \in DOMAIN v

\* scenario.get("death_risk_level", "medium"); a value that is not a string
\* equals none of the risk names
DeathRiskOf(scenario) ==
    LET v == Get(scenario, "death_risk_level", [str |-> "medium"])
    IN  IF IsString(v) THEN v.str ELSE "(not a string)"

\* sum(1 for choice in player_history if choice.get("score", 50) < 30)
PreviousPoorChoices(player_history) ==
    Cardinality({i \in 1..Len(player_history) : player_history[i].score < 30})

\* building the prompt slices the description and joins the survival
\* factors, before the try block: a null in either raises TypeError
PromptRaises(scenario) ==
    \/ Get(scenario, "description", [str |-> ""]) = PyNone
    \/ Get(scenario, "survival_factors", [list |-> <<>>]) = PyNone

\* an oracle path that stores the oracle's number as it came
EnsureFieldsUnclamped(analysis) ==
    [k \in DOMAIN analysis
           \cup {"survival_score", "instant_death", "choice_classification"} |->
        IF k = "survival_score" THEN Get(analysis, k, [num |-> 50])
        ELSE IF k = "instant_death"
        THEN Get(analysis, k, [bool |-> FALSE])
        ELSE IF k = "choice_classification"
        THEN Get(analysis, k, [str |-> "neutral"])
        ELSE analysis[k]]

\* lines 258-260: the three fields the oracle path fills in
EnsureFields(analysis) ==
    [k \in DOMAIN analysis
           \cup {"survival_score", "instant_death", "choice_classification"} |->
        IF k = "survival_score"
        THEN [num |-> Max(0, Min(100, Get(analysis, k, [num |-> 50]).num))]
        ELSE IF k = "instant_death"
        THEN Get(analysis, k, [bool |-> FALSE])
        ELSE IF k = "choice_classification"
        THEN Get(analysis, k, [str |-> "neutral"])
        ELSE analysis[k]]

\* an analysis that treats a missing survival_score as a failed reply
AnalyzeAnswerStrict(scenario, player_answer, player_history, reply) ==
    LET death_risk == DeathRiskOf(scenario)
        previous_poor_choices == PreviousPoorChoices(player_history)
        got == ExtractObject(reply)
        fallback == FallbackDeathAnalysis(player_answer, death_risk,
                                          previous_poor_choices)
    IN  IF PromptRaises(scenario) THEN [exc |-> "TypeError"]
        ELSE IF "obj" \in DOMAIN got
                /\ "survival_score" \in DOMAIN got.obj
                /\ IsNumber(got.obj.survival_score)
             THEN [ret |-> EnsureFields(got.obj)]
        ELSE [ret |-> fallback]

\* an analysis that overrides the oracle's instant_death by the fallback's
\* decision chain
AnalyzeAnswerTabled(scenario, player_answer, player_history, reply) ==
    LET death_risk == DeathRiskOf(scenario)
        previous_poor_choices == PreviousPoorChoices(player_history)
        got == ExtractObject(reply)
        fallback == FallbackDeathAnalysis(player_answer, death_risk,
                                          previous_poor_choices)
    IN  IF PromptRaises(scenario) THEN [exc |-> "TypeError"]
        ELSE IF "obj" \in DOMAIN got
                /\ IsNumber(Get(got.obj, "survival_score", [num |-> 50]))
             THEN [ret |-> [EnsureFields(got.obj) EXCEPT !.instant_death =
                      [bool |-> FallbackInstantDeath(death_risk,
                          previous_poor_choices,
                          EnsureFields(got.obj).survival_score.num)]]]
        ELSE [ret |-> fallback]

\* the whole method: [ret |-> dict] or, from the prompt lines, [exc |-> _]
AnalyzeAnswerWithDeathCheck(scenario, player_answer, player_history, reply) ==
    LET death_risk == DeathRiskOf(scenario)
        previous_poor_choices == PreviousPoorChoices(player_history)
        got == ExtractObject(reply)
        fallback == FallbackDeathAnalysis(player_answer, death_risk,
                                          previous_poor_choices)
    IN  IF PromptRaises(scenario) THEN [exc |-> "TypeError"]
        ELSE IF "obj" \in DOMAIN got
                \* max(0, min(100, x)) raises TypeError unless x is a number
                /\ IsNumber(Get(got.obj, "survival_score", [num |-> 50]))
             THEN [ret |-> EnsureFields(got.obj)]
        ELSE [ret |-> fallback]

(***************************************************************************)
(* submit_answer, lines 267-286: the analysis the route acts on.           *)
(***************************************************************************)
\* Python truthiness of a JSON value
Truthy(v) ==
    \/ "bool" \in DOMAIN v /\ v.bool
    \/ "num" \in DOMAIN v /\ v.num # 0
    \/ "str" \in DOMAIN v /\ v.str # ""

SubmitEvaluation(scenario, answer_text, player_history, reply) ==
    LET r == AnalyzeAnswerWithDeathCheck(scenario, answer_text,
                                         player_history, reply)
        analysis_result ==
            IF "ret" \in DOMAIN r THEN r.ret
            ELSE FallbackDeathAnalysis(answer_text, DeathRiskOf(scenario),
                                       PreviousPoorChoices(player_history))
    IN  [analysis_result |-> analysis_result,
         instant_death |-> Get(analysis_result, "instant_death", [bool |-> FALSE]),
         score |-> Get(analysis_result, "survival_score", [num |-> 50])]

(***************************************************************************)
(* AIService.generate_death_narrative                                      *)
(***************************************************************************)
FallbackDeathNarrative(player_data, death_reason) ==
    [player_name |-> player_data.player_name,
     eliminated |-> [bool |-> TRUE],
     death_narrative |-> [str |-> "Poor decision-making caught up with",
                          player_name |-> player_data.player_name],
     death_analysis |-> [str |-> "Consistently poor judgment"],
     fate_title |-> [str |-> "ELIMINATED"],
     elimination_reason |->
         IF Truthy(death_reason) THEN death_reason
         ELSE [str |-> "Poor survival instincts"]]

\* the parsed object, or the fallback narrative on no match / any exception
GenerateDeathNarrative(player_data, death_reason, reply) ==
    LET got == ExtractObject(reply)
    IN  IF "obj" \in DOMAIN got THEN [ret |-> got.obj]
        ELSE [ret |-> FallbackDeathNarrative(player_data, death_reason)]

(***************************************************************************)
(* The stored tables (models/game.py) and the rows the model starts with.  *)
(***************************************************************************)
\* the columns of a PlayerAnswer that also mapped the two attributes the
\* routes set
PlayerAnswerColumnsWithElimination ==
    {"id", "session_id", "player_id", "question_number", "answer_text",
     "score", "created_at", "is_eliminated", "elimination_reason"}

\* the Column attributes of class PlayerAnswer
PlayerAnswerColumns ==
    {"id", "session_id", "player_id", "question_number", "answer_text",
     "score", "created_at"}

game_sessions ==
    {[id |-> 1, session_code |-> "S1", theme |-> "haunted_house",
      status |-> "waiting"],
     [id |-> 2, session_code |-> "S2", theme |-> "haunted_house",
      status |-> "in_progress"],
     [id |-> 3, session_code |-> "S3", theme |-> "haunted_house",
      status |-> "waiting"]}

players ==
    {[id |-> 1, name |-> "ana", session_id |-> 1],
     [id |-> 2, name |-> "ben", session_id |-> 1]}

\* db.query(GameSession).filter(session_code == code).first()
SessionByCode(code) ==
    IF \E gs \in game_sessions : gs.session_code = code
    THEN CHOOSE gs \in game_sessions : gs.session_code = code
    ELSE PyNone

\* db.query(Player).filter(id == player_id, session_id == session.id).first()
PlayerInSession(player_id, session) ==
    IF \E pl \in players : pl.id = player_id /\ pl.session_id = session.id
    THEN CHOOSE pl \in players : pl.id = player_id /\ pl.session_id = session.id
    ELSE PyNone

\* db.query(Player).filter(id == player_id).first()
PlayerById(player_id) ==
    IF \E pl \in players : pl.id = player_id
    THEN CHOOSE pl \in players : pl.id = player_id
    ELSE PyNone

\* ids of the rows of one player
RowsOf(table, player_id) ==
    {i \in 1..Len(table) : table[i].player_id = player_id}

\* .filter(player_id == p).order_by(PlayerAnswer.id.desc()).first()
LatestAnswer(table, player_id) ==
    IF RowsOf(table, player_id) = {} THEN PyNone
    ELSE table[SetMax(RowsOf(table, player_id))]

\* hasattr(answer, 'is_eliminated') and answer.is_eliminated, on a row just
\* loaded: the attribute exists only if the class maps it, and an unset
\* column loads as None
IsEliminatedRow(answer) ==
    /\ answer # PyNone
    /\ "is_eliminated" \in PlayerAnswerColumns
    /\ Truthy(Get(answer, "is_eliminated", PyNone))

\* PlayerAnswer(**answer_data): the declarative constructor raises TypeError
\* for a keyword that is no attribute of the class
ConstructorAccepts(answer_data) == DOMAIN answer_data \subseteq PlayerAnswerColumns

\* what a commit writes of an object's attributes: the mapped columns
Persisted(attrs) == [k \in DOMAIN attrs \cap PlayerAnswerColumns |-> attrs[k]]

RECURSIVE SortedByQuestion(_, _)
\* .order_by(PlayerAnswer.question_number).all() over the given row ids
SortedByQuestion(table, ids) ==
    IF ids = {} THEN <<>>
    ELSE LET first == CHOOSE i \in ids : \A j \in ids :
                          \/ table[i].question_number < table[j].question_number
                          \/ /\ table[i].question_number = table[j].question_number
                             /\ i <= j
         IN  <<table[first]>> \o SortedByQuestion(table, ids \ {first})

\* submit_answer lines 255-265
PlayerHistory(table, player_id) ==
    LET previous_answers == SortedByQuestion(table, RowsOf(table, player_id))
    IN  [i \in 1..Len(previous_answers) |->
            [question_number |-> previous_answers[i].question_number,
             score |-> previous_answers[i].score,
             answer_text |-> SubSeq(previous_answers[i].answer_text, 1,
                                 Min(100, Len(previous_answers[i].answer_text)))]]

\* submit_answer lines 228-252: the scenario the answer is judged against
SubmitScenario(theme, question_number, reply) ==
    IF question_number = 1 THEN GenerateInitialScenario(theme, reply).ret
    ELSE LET next == GenerateNextScenario(theme, question_number, reply).ret
         IN  IF next = PyNone \/ next = EmptyDict
             THEN GetFallbackInitialScenario(theme)
             ELSE next

ExistingAnswerIdMutant(table, session, player_id, question_number) == 0

\* .filter(session_id, player_id, question_number).first()
ExistingAnswerId(table, session, player_id, question_number) ==
    LET ids == {i \in 1..Len(table) :
                   /\ table[i].session_id = session.id
                   /\ table[i].player_id = player_id
                   /\ table[i].question_number = question_number}
    IN  IF ids = {} THEN 0 ELSE SetMin(ids)

(***************************************************************************)
(* Oracle replies the model draws from.                                    *)
(***************************************************************************)
Missing == [missing |-> TRUE]

\* a dict literal without the keys whose value is Missing
Dict(full) == [k \in {x \in DOMAIN full : full[x] # Missing} |-> full[k]]

PlainText == <<"{", "members", "}">>

FixedReplyTexts ==
    {PlainText,
     <<"fence_json", "{", "members", "}", "fence">>,
     <<"fence", "{", "members", "}", "fence">>,
     <<"junk", "{", "members", "{", "members", "}", "}", "junk">>,
     <<"{", "members", "}", "junk", "}">>,
     <<"{", "members", "}", "junk", "{", "members", "}">>,
     <<"fence_json", "{", "members">>}

ReplyTexts ==
    FixedReplyTexts \cup UNION {[1..n -> Tokens] : n \in 0..MaxReplyTokens}

ShortDescription == "It is dark. What do you do?"
LongDescription ==
    "The cellar door creaks open and something breathes below. What do you do?"

ScenarioObject(qn, title, description, factors, risk) ==
    Dict([question_number |-> qn, title |-> title, description |-> description,
          survival_factors |-> factors, death_risk_level |-> risk])

OracleRisks ==
    {Missing} \cup {[str |-> r] : r \in DeathRisks}

ScenarioObjects ==
    {ScenarioObject(qn, t, d, f, r) :
        qn \in {Missing, [num |-> 1], [num |-> 2]},
        t \in {Missing, [str |-> "No"], [str |-> "The Cellar Door"]},
        d \in {Missing, PyNone, [str |-> ShortDescription],
               [str |-> LongDescription]},
        f \in {Missing, PyNone, [list |-> <<>>], [list |-> <<"caution">>]},
        r \in OracleRisks}

GoodScenarioObject ==
    ScenarioObject([num |-> 1], [str |-> "The Cellar Door"],
                   [str |-> LongDescription], [list |-> <<"caution">>],
                   [str |-> "high"])

OracleFailure == [raise |-> TRUE]

ScenarioReplies ==
    {OracleFailure}
    \cup {[text |-> PlainText, obj |-> o] : o \in ScenarioObjects}
    \cup {[text |-> t, obj |-> GoodScenarioObject] : t \in ReplyTexts}

Themes ==
    {"haunted_house", "zombie_outbreak", "slasher_movie", "alien_invasion",
     "deep_sea_terror", "cosmic_horror"}

(***************************************************************************)
(* SpecScenario: the two scenario generators on drawn themes and replies.  *)
(***************************************************************************)
InitScenario ==
    /\ InitGame
    /\ fnIn \in {[fn |-> "initial", theme |-> th, reply |-> r] :
                    th \in Themes, r \in ScenarioReplies}
          \cup {[fn |-> "next", theme |-> th, question_number |-> 2,
                 reply |-> r] : th \in Themes, r \in ScenarioReplies}
    /\ fnOut = Unset

CallGenerateInitialScenario ==
    /\ fnIn.fn = "initial"
    /\ fnOut = Unset
    /\ fnOut' = GenerateInitialScenario(fnIn.theme, fnIn.reply)
    /\ UNCHANGED fnIn
    /\ UnchangedGame

CallGenerateNextScenario ==
    /\ fnIn.fn = "next"
    /\ fnOut = Unset
    /\ fnOut' = GenerateNextScenario(fnIn.theme, fnIn.question_number,
                                     fnIn.reply)
    /\ UNCHANGED fnIn
    /\ UnchangedGame

NextScenario == CallGenerateInitialScenario \/ CallGenerateNextScenario

SpecScenario == InitScenario /\ [][NextScenario]_vars

AnalysisObject(score, death, reason, class) ==
    Dict([survival_score |-> score, instant_death |-> death,
          death_reason |-> reason, choice_classification |-> class,
          analysis |-> [str |-> "You hesitate at the door."]])

OracleScores ==
    {Missing, PyNone, [str |-> "75"], [num |-> -20], [num |-> 35],
     [num |-> 250]}

AnalysisObjects ==
    {AnalysisObject(sc, d, r, [str |-> "reckless"]) :
        sc \in OracleScores,
        d \in {Missing, PyNone, [bool |-> TRUE], [bool |-> FALSE]},
        r \in {Missing, PyNone, [str |-> "Dragged into the dark"]}}
    \cup {AnalysisObject(Missing, Missing, Missing, Missing)}

GoodAnalysisObject ==
    AnalysisObject([num |-> 35], [bool |-> FALSE], PyNone, [str |-> "neutral"])

AnalysisReplies ==
    {OracleFailure}
    \cup {[text |-> PlainText, obj |-> o] : o \in AnalysisObjects}
    \cup {[text |-> t, obj |-> GoodAnalysisObject] : t \in FixedReplyTexts}

\* the scenarios an answer is analysed against
AnalyzedScenarios ==
    {ScenarioObject([num |-> 1], [str |-> "The Cellar Door"],
                    [str |-> LongDescription], [list |-> <<"caution">>], r) :
        r \in OracleRisks}
    \cup {HauntedHouseScenario, EmptyDict,
          ScenarioObject([num |-> 1], [str |-> "The Cellar Door"], PyNone,
                         [list |-> <<"caution">>], [str |-> "instant"]),
          ScenarioObject([num |-> 1], [str |-> "The Cellar Door"],
                         [str |-> LongDescription], PyNone, [str |-> "high"])}

AnalyzedWordLists ==
    {<<>>, <<"carefully">>, <<"run", "scream", "breakfast">>,
     <<"run", "charge", "attack", "rush", "fast", "grab", "fight">>}

\* player_history as submit_answer builds it from the stored rows
HistoryOf(scores) ==
    [i \in 1..Len(scores) |->
        [question_number |-> i, score |-> scores[i], answer_text |-> <<>>]]

Histories ==
    {HistoryOf(sc) : sc \in UNION {[1..n -> {10, 50}] : n \in 0..MaxHistory}}

(***************************************************************************)
(* SpecAnalyze: the analysis submit_answer acts on, on drawn inputs.       *)
(***************************************************************************)
InitAnalyze ==
    /\ InitGame
    /\ fnIn \in {[fn |-> "analyze", scenario |-> sc, words |-> ws,
                  answer |-> Join(ws), history |-> h, reply |-> r] :
                    sc \in AnalyzedScenarios, ws \in AnalyzedWordLists,
                    h \in Histories, r \in AnalysisReplies}
    /\ fnOut = Unset

CallSubmitEvaluation ==
    /\ fnIn.fn = "analyze"
    /\ fnOut = Unset
    /\ fnOut' = SubmitEvaluation(fnIn.scenario, fnIn.answer, fnIn.history,
                                 fnIn.reply)
    /\ UNCHANGED fnIn
    /\ UnchangedGame

NextAnalyze == CallSubmitEvaluation

SpecAnalyze == InitAnalyze /\ [][NextAnalyze]_vars

(***************************************************************************)
(* routes/game.py: the request handlers.  A handler runs to its response   *)
(* without yielding (the service methods never await), so each is one step.*)
(***************************************************************************)
HTTPException(status_code, detail) ==
    [status |-> status_code, body |-> [detail |-> [str |-> detail]]]

\* an exception no handler catches: the framework answers 500
Unhandled(exception) ==
    [status |-> 500, body |-> [detail |-> [str |-> exception]]]

Ok(body) == [status |-> 200, body |-> body]

\* setattr(obj, name, value)
SetAttr(obj, name, value) ==
    [k \in DOMAIN obj \cup {name} |-> IF k = name THEN value ELSE obj[k]]

RECURSIVE SumScores(_, _)
\* sum(a.score for a in rows)
SumScores(table, ids) ==
    IF ids = {} THEN 0
    ELSE LET i == CHOOSE x \in ids : TRUE
         IN  table[i].score + SumScores(table, ids \ {i})

\* submit_answer lines 206-223: the checks before any oracle call; PyNone
\* when the request passes them
SubmitRejection(table, request) ==
    LET session == SessionByCode(request.session_code)
        player == PlayerInSession(request.player_id, session)
        latest_answer == LatestAnswer(table, request.player_id)
    IN  IF session = PyNone THEN HTTPException(404, "Session not found")
        ELSE IF player = PyNone
        THEN HTTPException(404, "Player not found in session")
        ELSE IF IsEliminatedRow(latest_answer)
        THEN HTTPException(400,
                 "Player has been eliminated and cannot continue")
        ELSE PyNone

\* submit_answer lines 295-317: the write, given the id the lookup at
\* 289-293 found (0 for none).  [raised |-> TRUE] when the constructor
\* refuses answer_data, else the table after the commit and the id of the
\* row on which is_eliminated was set (0 for none)
SaveAnswerAt(table, existing, session, request, evaluation) ==
    LET instant_death == Truthy(evaluation.instant_death)
        death_reason == Get(evaluation.analysis_result, "death_reason",
                            [str |-> "Poor survival choices"])
        rewritten ==
            LET a1 == SetAttr(table[existing], "answer_text", request.answer_text)
                a2 == SetAttr(a1, "score", evaluation.score.num)
            IN  IF instant_death
                THEN SetAttr(SetAttr(a2, "is_eliminated", [bool |-> TRUE]),
                             "elimination_reason", death_reason)
                ELSE a2
        answer_data ==
            LET base == [session_id |-> session.id,
                         player_id |-> request.player_id,
                         question_number |-> request.question_number,
                         answer_text |-> request.answer_text,
                         score |-> evaluation.score.num]
            IN  IF instant_death
                THEN SetAttr(SetAttr(base, "is_eliminated", [bool |-> TRUE]),
                             "elimination_reason", death_reason)
                ELSE base
    IN  IF existing # 0
        THEN [raised |-> FALSE,
              table |-> [table EXCEPT ![existing] = Persisted(rewritten)],
              set_eliminated |-> IF instant_death THEN existing ELSE 0]
        ELSE IF ~ConstructorAccepts(answer_data)
        THEN [raised |-> TRUE, table |-> table, set_eliminated |-> 0]
        ELSE [raised |-> FALSE,
              table |-> Append(table, Persisted(SetAttr(answer_data, "id",
                                                        Len(table) + 1))),
              set_eliminated |-> 0]

\* lines 289-317 in one piece: the lookup at 289-293, then the write
SaveAnswer(table, session, request, evaluation) ==
    SaveAnswerAt(table,
                 ExistingAnswerId(table, session, request.player_id,
                                  request.question_number),
                 session, request, evaluation)

\* submit_answer lines 319-362: the response after a successful save
SubmitResponse(table, player, player_history, evaluation, narrative_reply) ==
    LET instant_death == Truthy(evaluation.instant_death)
        death_reason == Get(evaluation.analysis_result, "death_reason",
                            [str |-> "Poor survival choices"])
        player_data ==
            [player_name |-> [str |-> player.name],
             total_score |-> SumScores(table, RowsOf(table, player.id)),
             answer_count |-> Len(player_history) + 1]
    IN  Ok(Dict([message |-> [str |-> "Answer submitted successfully"],
                 score |-> evaluation.score,
                 choice_classification |->
                     Get(evaluation.analysis_result, "choice_classification",
                         [str |-> "neutral"]),
                 instant_death |->
                     IF instant_death THEN [bool |-> TRUE] ELSE Missing,
                 game_over |->
                     IF instant_death THEN [bool |-> TRUE] ELSE Missing,
                 elimination_reason |->
                     IF instant_death THEN death_reason ELSE Missing,
                 death_narrative |->
                     IF instant_death
                     THEN GenerateDeathNarrative(player_data, death_reason,
                                                 narrative_reply).ret
                     ELSE Missing]))

\* check_player_elimination
CheckEliminationOutcome(table, session_code, player_id) ==
    LET session == SessionByCode(session_code)
        latest_answer == LatestAnswer(table, player_id)
    IN  IF session = PyNone THEN HTTPException(404, "Session not found")
        ELSE IF IsEliminatedRow(latest_answer)
        THEN Ok([is_eliminated |-> [bool |-> TRUE],
                 elimination_reason |->
                     Get(latest_answer, "elimination_reason", PyNone),
                 can_continue |-> [bool |-> FALSE]])
        ELSE Ok([is_eliminated |-> [bool |-> FALSE],
                 can_continue |-> [bool |-> TRUE]])

\* get_session: the players of the session split by their latest row
GetSessionOutcome(table, session_code) ==
    LET session == SessionByCode(session_code)
        members == {pl \in players : pl.session_id = session.id}
        gone == {pl \in members : IsEliminatedRow(LatestAnswer(table, pl.id))}
    IN  IF session = PyNone THEN HTTPException(404, "Session not found")
        ELSE Ok([session_code |-> [str |-> session.session_code],
                 theme |-> [str |-> session.theme],
                 active_players |-> {pl.id : pl \in members \ gone},
                 eliminated_players |-> {pl.id : pl \in gone},
                 total_players |-> [num |-> Cardinality(members)]])

\* get_dynamic_scenario
GetDynamicScenarioOutcome(session_code, question_number, player_id, reply) ==
    LET session == SessionByCode(session_code)
        player == PlayerById(player_id)
        scenario ==
            IF question_number = 1
            THEN GenerateInitialScenario(session.theme, reply).ret
            ELSE GenerateNextScenario(session.theme, question_number, reply).ret
    IN  IF session = PyNone THEN HTTPException(404, "Session not found")
        ELSE IF player = PyNone THEN HTTPException(404, "Player not found")
        ELSE IF scenario # PyNone /\ scenario # EmptyDict THEN Ok(scenario)
        ELSE Ok(GetFallbackInitialScenario(session.theme))

(***************************************************************************)
(* AIService.generate_final_results and _fallback_results, get_results     *)
(***************************************************************************)
RECURSIVE SortedByTotalScore(_)
\* sorted(players_data, key=total_score, reverse=True): stable, so players
\* with equal totals keep their order
SortedByTotalScore(data) ==
    IF data = <<>> THEN <<>>
    ELSE LET first == CHOOSE i \in 1..Len(data) :
                 /\ \A j \in 1..Len(data) :
                        data[j].total_score <= data[i].total_score
                 /\ \A j \in 1..(i - 1) :
                        data[j].total_score < data[i].total_score
             rest == [k \in 1..(Len(data) - 1) |->
                         IF k < first THEN data[k] ELSE data[k + 1]]
         IN  <<data[first]>> \o SortedByTotalScore(rest)

\* ['poor', 'below average', 'average'][min(2, max(0, total_score // 30))]
ScoreRating(total_score) ==
    LET names == <<"poor", "below average", "average">>
    IN  names[Min(2, Max(0, total_score \div 30)) + 1]

FallbackResults(sorted_players) ==
    [i \in 1..Len(sorted_players) |->
        [player_name |-> sorted_players[i].player_name,
         rank |-> [num |-> i],
         survived |-> [bool |-> i = 1],
         fate_title |->
             IF i = 1 THEN [str |-> "SOLE SURVIVOR"]
             ELSE [str |-> "VICTIM #", rank |-> i],
         narrative |->
             [str |-> IF i = 1 THEN "kept you alive"
                      ELSE IF i = 2 THEN "came close to survival"
                      ELSE "an early demise"],
         survival_analysis |->
             IF i = 1
             THEN [str |-> "exceptional",
                   total_score |-> sorted_players[i].total_score]
             ELSE [str |-> ScoreRating(sorted_players[i].total_score),
                   total_score |-> sorted_players[i].total_score]]]

IsDict(v) == DOMAIN v \cap {"num", "str", "bool", "null", "list"} = {}

\* lines 464-471: the six fields, with a default for each one missing
ValidatedResult(result) ==
    [player_name |-> Get(result, "player_name", [str |-> "Unknown"]),
     rank |-> Get(result, "rank", [num |-> 1]),
     survived |-> Get(result, "survived", [bool |-> FALSE]),
     fate_title |-> Get(result, "fate_title", [str |-> "Unknown Fate"]),
     narrative |-> Get(result, "narrative", [str |-> "No story available"]),
     survival_analysis |->
         Get(result, "survival_analysis", [str |-> "No analysis available"])]

\* reply: [raise |-> TRUE] for every failure up to and including json.loads
\* (all land in the one except clause), else [arr |-> the parsed array]
GenerateFinalResults(players_data, reply) ==
    LET sorted_players == SortedByTotalScore(players_data)
    IN  IF "raise" \in DOMAIN reply THEN FallbackResults(sorted_players)
        \* result.get on an element that is no object raises AttributeError
        ELSE IF \E i \in 1..Len(reply.arr) : ~IsDict(reply.arr[i])
        THEN FallbackResults(sorted_players)
        ELSE IF Len(reply.arr) >= Len(sorted_players)
        THEN [i \in 1..Len(sorted_players) |-> ValidatedResult(reply.arr[i])]
        ELSE FallbackResults(sorted_players)

RECURSIVE InIdOrder(_)
\* the rows of a query without ORDER BY, as the store returns them: by id
InIdOrder(rows) ==
    IF rows = {} THEN <<>>
    ELSE LET first == CHOOSE r \in rows : \A q \in rows : r.id <= q.id
         IN  <<first>> \o InIdOrder(rows \ {first})

SelectSeq2(seq, keep) ==
    LET F[i \in 0..Len(seq)] ==
            IF i = 0 THEN <<>>
            ELSE IF keep[i] THEN Append(F[i - 1], seq[i]) ELSE F[i - 1]
    IN  F[Len(seq)]

\* get_results lines 402-422: one player's entry
ResultsPlayerData(table, player) ==
    LET ids == RowsOf(table, player.id)
        total_score == SumScores(table, ids)
        \* answers[-1] if answers else None
        latest_answer == IF ids = {} THEN PyNone ELSE table[SetMax(ids)]
        is_eliminated ==
            IF latest_answer = PyNone THEN PyNone
            ELSE IF "is_eliminated" \notin PlayerAnswerColumns
            THEN [bool |-> FALSE]
            ELSE Get(latest_answer, "is_eliminated", PyNone)
        player_data ==
            [player_name |-> [str |-> player.name],
             total_score |-> total_score,
             answer_count |-> Cardinality(ids),
             average_score |->
                 IF ids = {} THEN [num |-> 0]
                 ELSE [ratio |-> <<total_score, Cardinality(ids)>>],
             is_eliminated |-> is_eliminated]
    IN  IF Truthy(is_eliminated)
        THEN SetAttr(player_data, "elimination_reason",
                     Get(latest_answer, "elimination_reason", PyNone))
        ELSE player_data

\* get_results lines 426-462: the try block, which builds the response from
\* the two lists of the roster split
AssembleResults(players_data, eliminated_players_data, results_reply, narrative_reply) ==
    LET survivor_results ==
            IF players_data # <<>>
            THEN GenerateFinalResults(players_data, results_reply)
            ELSE <<>>
        elimination_results ==
            [i \in 1..Len(eliminated_players_data) |->
                GenerateDeathNarrative(eliminated_players_data[i],
                    Get(eliminated_players_data[i], "elimination_reason",
                        [str |-> "Poor survival choices"]),
                    narrative_reply).ret]
        all_results == elimination_results \o survivor_results
    IN  [results |-> all_results,
         survivors |-> [num |-> Len(survivor_results)],
         eliminated |-> [num |-> Len(elimination_results)],
         total_players |-> [num |-> Len(all_results)]]

\* get_results lines 464-472: either except clause
RouteFallbackResultsMutant(players_data, eliminated_players_data) ==
    [results |->
         [i \in 1..Len(players_data \o eliminated_players_data) |->
             [FallbackResults(players_data \o eliminated_players_data)[i]
                  EXCEPT !.narrative = [str |-> "A story"]]],
     survivors |-> [num |-> Len(players_data)],
     eliminated |-> [num |-> Len(eliminated_players_data)]]

RouteFallbackResults(players_data, eliminated_players_data) ==
    [results |-> FallbackResults(players_data \o eliminated_players_data),
     survivors |-> [num |-> Len(players_data)],
     eliminated |-> [num |-> Len(eliminated_players_data)]]

\* nothing in the try block raises or suspends: the AIService methods catch
\* every exception of the oracle call, and the handler never yields to the
\* event loop, so the response is the try block's
GetResultsOutcome(table, session_code, results_reply, narrative_reply) ==
    LET session == SessionByCode(session_code)
        members == InIdOrder({pl \in players : pl.session_id = session.id})
        all_data == [i \in 1..Len(members) |->
                        ResultsPlayerData(table, members[i])]
        gone == [i \in 1..Len(members) |-> Truthy(all_data[i].is_eliminated)]
        players_data == SelectSeq2(all_data, [i \in 1..Len(members) |-> ~gone[i]])
        eliminated_players_data == SelectSeq2(all_data, gone)
    IN  IF session = PyNone THEN HTTPException(404, "Session not found")
        ELSE Ok(AssembleResults(players_data, eliminated_players_data,
                                results_reply, narrative_reply))

(***************************************************************************)
(* Spec: requests against one session with two players, one of them        *)
(* playing.                                                                *)
(***************************************************************************)
SessionCodes == {"S1", "ZZ"}       \* the stored session's code, and one unknown
PlayerIds == {1, 9}                \* a stored player, and an unknown one

GameWordLists ==
    {<<"carefully">>,
     <<"run", "charge", "attack", "rush", "fast", "grab", "fight">>}

InstantRiskScenario ==
    ScenarioObject([num |-> 1], [str |-> "The Cellar Door"],
                   [str |-> LongDescription], Missing, [str |-> "instant"])

GameScenarioReplies ==
    {OracleFailure,
     [text |-> PlainText, obj |-> EmptyDict],
     [text |-> PlainText, obj |-> InstantRiskScenario]}

\* for submit-answer, where an empty object and a failure both leave the
\* answer judged at medium risk
SubmitScenarioReplies ==
    {OracleFailure, [text |-> PlainText, obj |-> InstantRiskScenario]}

GameAnalysisReplies ==
    {OracleFailure,
     [text |-> PlainText,
      obj |-> AnalysisObject([num |-> 250], Missing, Missing, Missing)],
     [text |-> PlainText,
      obj |-> AnalysisObject([num |-> -20], [bool |-> TRUE],
                             [str |-> "Dragged into the dark"],
                             [str |-> "reckless"])],
     [text |-> PlainText,
      obj |-> AnalysisObject(Missing, [bool |-> TRUE], PyNone, Missing)]}

GameNarrativeReplies ==
    {OracleFailure,
     [text |-> PlainText,
      obj |-> [death_narrative |-> [str |-> "The door closed behind you."]]]}

GameResultsReplies ==
    {OracleFailure,
     [arr |-> <<[player_name |-> [str |-> "ana"], rank |-> [num |-> 1],
                 survived |-> [bool |-> TRUE]],
               [player_name |-> [str |-> "ben"], rank |-> [num |-> 2]]>>],
     [arr |-> <<[player_name |-> [str |-> "ana"]]>>],
     [arr |-> <<[str |-> "ana"], [str |-> "ben"]>>]}

Init == InitGame /\ InitFn

\* what a request other than submit-answer names besides the player
Named(session_code) == [session_code |-> session_code]

\* what a request leaves behind for the properties: the response, and the
\* history of the requesting player before the request
Record(action, player_id, request, response, table, oracle_calls, evaluated_score) ==
    [action |-> action, player_id |-> player_id, request |-> request,
     status |-> response.status, body |-> response.body,
     oracle_calls |-> oracle_calls,
     evaluated_score |-> evaluated_score,
     changed |-> table # answers,
     was_dead |-> player_id \in dead,
     latest_marked |->
         /\ RowsOf(answers, player_id) # {}
         /\ SetMax(RowsOf(answers, player_id)) \in marked]

Commit(player_id, outcome) ==
    /\ answers' = outcome.table
    /\ marked' = IF outcome.set_eliminated # 0
                 THEN marked \cup {outcome.set_eliminated} ELSE marked
    /\ dead' = IF outcome.evaluated_death
               THEN dead \cup {player_id} ELSE dead
    /\ resp' = Record("submit", player_id, outcome.request, outcome.response, outcome.table,
                      outcome.oracle_calls, outcome.evaluated_score)
    /\ UNCHANGED <<fnIn, fnOut>>

\* one submit-answer request, in the handler's order: the checks, the
\* scenario, the history, the analysis, the save, the response.  An oracle
\* reply is drawn for each call the handler gets to make.
SubmitAnswer ==
    \E session_code \in SessionCodes, player_id \in PlayerIds,
       question_number \in 1..MaxQuestion, ws \in GameWordLists :
      \E request \in {[session_code |-> session_code, player_id |-> player_id,
                       question_number |-> question_number,
                       answer_text |-> Join(ws)]} :
      \E rejection \in {SubmitRejection(answers, request)} :
        IF rejection # PyNone
        THEN Commit(player_id,
                    [request |-> request, response |-> rejection, table |-> answers,
                     oracle_calls |-> 0, evaluated_score |-> PyNone,
                     evaluated_death |-> FALSE, set_eliminated |-> 0])
        ELSE
          \E scenario_reply \in SubmitScenarioReplies,
             analysis_reply \in GameAnalysisReplies,
             session \in {SessionByCode(session_code)},
             player_history \in {PlayerHistory(answers, player_id)} :
            \E scenario \in {SubmitScenario(session.theme, question_number,
                                            scenario_reply)} :
            \E evaluation \in {SubmitEvaluation(scenario, request.answer_text,
                                                player_history, analysis_reply)} :
            \E saved \in {SaveAnswer(answers, session, request, evaluation)},
               analysis_calls \in {IF PromptRaises(scenario) THEN 0 ELSE 1} :
              IF saved.raised
              THEN Commit(player_id,
                          [request |-> request, response |-> Unhandled("TypeError"),
                           table |-> answers,
                           oracle_calls |-> 1 + analysis_calls,
                           evaluated_score |-> evaluation.score,
                           evaluated_death |-> TRUE, set_eliminated |-> 0])
              ELSE
                \E narrative_reply \in
                       IF Truthy(evaluation.instant_death)
                       THEN GameNarrativeReplies ELSE {OracleFailure} :
                  \E response \in
                       {SubmitResponse(saved.table,
                                       PlayerInSession(player_id, session),
                                       player_history, evaluation,
                                       narrative_reply)} :
                    Commit(player_id,
                           [request |-> request, response |-> response, table |-> saved.table,
                            oracle_calls |->
                                1 + analysis_calls
                                + (IF Truthy(evaluation.instant_death)
                                   THEN 1 ELSE 0),
                            evaluated_score |-> evaluation.score,
                            evaluated_death |->
                                Truthy(evaluation.instant_death),
                            set_eliminated |-> saved.set_eliminated])

CheckElimination ==
    \E session_code \in SessionCodes, player_id \in PlayerIds :
        /\ resp' = Record("check", player_id, Named(session_code),
                          CheckEliminationOutcome(answers, session_code,
                                                  player_id),
                          answers, 0, PyNone)
        /\ UNCHANGED <<answers, marked, dead, fnIn, fnOut>>

GetSession ==
    \E session_code \in SessionCodes :
        /\ resp' = Record("session", 0, Named(session_code),
                          GetSessionOutcome(answers, session_code), answers, 0,
                          PyNone)
        /\ UNCHANGED <<answers, marked, dead, fnIn, fnOut>>

GetDynamicScenario ==
    \E session_code \in SessionCodes, player_id \in PlayerIds,
       question_number \in 1..MaxQuestion :
        LET Handle(reply) ==
                GetDynamicScenarioOutcome(session_code, question_number,
                                          player_id, reply)
        IN  /\ \E silent \in {Handle(OracleFailure)} :
                 IF silent.status = 404
                 THEN resp' = Record("scenario", player_id, Named(session_code), silent, answers, 0,
                                     PyNone)
                 ELSE \E reply \in GameScenarioReplies :
                          \E response \in {Handle(reply)} :
                              resp' = Record("scenario", player_id, Named(session_code), response,
                                             answers, 1, PyNone)
            /\ UNCHANGED <<answers, marked, dead, fnIn, fnOut>>

GetResults ==
    \E session_code \in SessionCodes :
        LET Handle(results_reply, narrative_reply) ==
                GetResultsOutcome(answers, session_code, results_reply,
                                  narrative_reply)
        IN  /\ \E silent \in {Handle(OracleFailure, OracleFailure)} :
                 IF silent.status = 404
                 THEN resp' = Record("results", 0, Named(session_code), silent, answers, 0, PyNone)
                 ELSE \E results_reply \in GameResultsReplies,
                         narrative_reply \in
                             IF silent.body.eliminated.num = 0
                             THEN {OracleFailure}
                             ELSE GameNarrativeReplies :
                          \E response \in {Handle(results_reply,
                                                  narrative_reply)} :
                              resp' = Record("results", 0, Named(session_code), response, answers,
                                  (IF silent.body.survivors.num = 0 THEN 0 ELSE 1)
                                  + silent.body.eliminated.num, PyNone)
            /\ UNCHANGED <<answers, marked, dead, fnIn, fnOut>>

Next ==
    \/ SubmitAnswer
    \/ CheckElimination
    \/ GetSession
    \/ GetDynamicScenario
    \/ GetResults

Spec == Init /\ [][Next]_vars

(***************************************************************************)
(* SpecPattern: the choice-pattern classifier on drawn choice lists.       *)
(***************************************************************************)
PatternScores == {0, 29, 30, 50, 70, 100}

\* player_choices as the routes build it from the stored rows
ChoicesOf(scores) ==
    [i \in 1..Len(scores) |->
        [question_number |-> i, answer_text |-> <<>>, score |-> scores[i]]]

InitPattern ==
    /\ InitGame
    /\ fnIn \in {[fn |-> "pattern", scores |-> sc, choices |-> ChoicesOf(sc)] :
                    sc \in UNION {[1..n -> PatternScores] : n \in 0..MaxChoices}}
    /\ fnOut = Unset

CallAnalyzeChoicePattern ==
    /\ fnIn.fn = "pattern"
    /\ fnOut = Unset
    /\ fnOut' = [ret |-> AnalyzeChoicePattern(fnIn.choices)]
    /\ UNCHANGED fnIn
    /\ UnchangedGame

NextPattern == CallAnalyzeChoicePattern

SpecPattern == InitPattern /\ [][NextPattern]_vars

(***************************************************************************)
(* SpecFallback: the deterministic scorer on drawn inputs.                 *)
(***************************************************************************)
FallbackInputs ==
    {[fn |-> "fallback", words |-> ws, answer |-> Join(ws),
      death_risk |-> r, previous_poor_choices |-> n] :
        ws \in WordLists, r \in DeathRisks, n \in 0..MaxPriorPoor}

DecisionInputs ==
    {[fn |-> "decision", death_risk |-> r, previous_poor_choices |-> n,
      base_score |-> s] :
        r \in DeathRisks, n \in 0..MaxPriorPoor, s \in 0..100}

InitFallback ==
    /\ InitGame
    /\ fnIn \in FallbackInputs \cup DecisionInputs
    /\ fnOut = Unset

CallFallbackDeathAnalysis ==
    /\ fnIn.fn = "fallback"
    /\ fnOut = Unset
    /\ fnOut' = FallbackDeathAnalysis(fnIn.answer, fnIn.death_risk,
                                      fnIn.previous_poor_choices)
    /\ UNCHANGED fnIn
    /\ UnchangedGame

\* lines 356-363 alone, on every base_score
CallInstantDeathChain ==
    /\ fnIn.fn = "decision"
    /\ fnOut = Unset
    /\ fnOut' = [instant_death |->
                    [bool |-> FallbackInstantDeath(fnIn.death_risk,
                                  fnIn.previous_poor_choices, fnIn.base_score)]]
    /\ UNCHANGED fnIn
    /\ UnchangedGame

NextFallback == CallFallbackDeathAnalysis \/ CallInstantDeathChain

SpecFallback == InitFallback /\ [][NextFallback]_vars

(***************************************************************************)
(* Claims about the fallback scorer (checked under SpecFallback).          *)
(***************************************************************************)
FallbackCalled == fnIn # Unset /\ fnIn.fn = "fallback" /\ fnOut # Unset
DecisionCalled == fnIn # Unset /\ fnIn.fn = "decision" /\ fnOut # Unset

\* the instant-death decision table as the specification states it
HazardTable(risk, priorPoor, score) ==
    \/ risk = "instant" /\ score < 40
    \/ risk = "high" /\ priorPoor >= 2 /\ score < 30
    \/ priorPoor >= 3 /\ score < 25

\* C4: on the fallback path instant_death is true exactly when
\* (risk = instant and score < 40) or (risk = high and priorPoor >= 2 and
\* score < 30) or (priorPoor >= 3 and score < 25), for every risk, every
\* priorPoor and every score in 0..100; the three examples of the claim
\* (instant/35 true for any priorPoor, medium/4/20 true, low/5/50 false).
C4_FallbackDecisionTable ==
    /\ FallbackCalled =>
          fnOut.instant_death.bool =
              HazardTable(fnIn.death_risk, fnIn.previous_poor_choices,
                          fnOut.survival_score.num)
    /\ DecisionCalled =>
          /\ fnOut.instant_death.bool =
                HazardTable(fnIn.death_risk, fnIn.previous_poor_choices,
                            fnIn.base_score)
          /\ FallbackInstantDeath("instant", fnIn.previous_poor_choices, 35)
          /\ FallbackInstantDeath("medium", 4, 20)
          /\ ~FallbackInstantDeath("low", 5, 50)

\* rule 3 alone decides: medium risk, three prior poor choices, score 20
C4_Witness ==
    /\ FallbackCalled
    /\ fnIn.death_risk = "medium"
    /\ fnIn.previous_poor_choices >= 3
    /\ fnOut.survival_score.num = 20
    /\ fnOut.instant_death.bool

\* the keywords a word of the input vocabulary contains, read off the word
KeywordsIn(w) ==
    CASE w \in {"carefully", "slowly", "observe", "listen", "plan", "strategy",
                "safe", "caution", "quietly", "run", "charge", "attack", "rush",
                "fast", "immediately", "grab", "fight", "scream", "panic"}
              -> {w}
      [] w = "Quietly" -> {"quietly"}
      [] w = "PANIC" -> {"panic"}
      [] w = "breakfast" -> {"fast"}
      [] OTHER -> {}

KeywordsOf(ws) == UNION {KeywordsIn(ws[i]) : i \in 1..Len(ws)}

Clamp100(n) == IF n < 0 THEN 0 ELSE IF n > 100 THEN 100 ELSE n

\* the score the code's two keyword lists give to a word list
ExpectedFallbackScore(ws) ==
    Clamp100(50 + 10 * Cardinality(KeywordsOf(ws) \cap cautious_keywords)
                - 10 * Cardinality(KeywordsOf(ws) \cap reckless_keywords))

\* the four tiers of the specification
excellent_tier ==
    {"carefully", "slowly", "quietly", "observe", "listen", "plan",
     "strategy", "safe", "caution", "think"}
good_tier ==
    {"check", "look", "examine", "search", "prepare", "ready", "escape",
     "help", "consider"}
bad_tier ==
    {"run", "charge", "attack", "rush", "fast", "immediately", "grab", "fight"}
terrible_tier ==
    {"scream", "panic", "freeze", "give up", "surrender", "ignore"}

Present(tier, text) ==
    Cardinality({k \in tier : Contains(Lower(text), Spell(k))})

QuestionMarks(text) == Cardinality({i \in 1..Len(text) : text[i] = "?"})

\* the score the specification's formula gives to a text
SpecifiedFallbackScore(text) ==
    Clamp100(50 + 15 * Present(excellent_tier, text)
                + 10 * Present(good_tier, text)
                - 10 * Present(bad_tier, text)
                - 20 * Present(terrible_tier, text)
                + (IF Len(text) > 100 THEN 5
                   ELSE IF Len(text) < 20 THEN -10 ELSE 0)
                + Min(9, 3 * QuestionMarks(text)))

\* C6 as stated: the fallback score is the four-tier formula (15/10/-10/-20
\* per distinct keyword, length bonus, '?' bonus, clamped), so the example
\* answer with carefully, quietly and observe scores 95.
C6_SpecifiedFormula ==
    FallbackCalled =>
        /\ fnOut.survival_score.num = SpecifiedFallbackScore(fnIn.answer)
        /\ fnIn.words = ExampleWords => fnOut.survival_score.num = 95

\* C6 amended: the fallback score is clamp to 0..100 of 50, plus 10 per
\* distinct cautious keyword present, minus 10 per distinct reckless keyword
\* present (case-insensitive substrings), with no length or '?' term; the
\* example answer with carefully, quietly and observe scores 80.
C6_FallbackScoreFormula ==
    FallbackCalled =>
        /\ fnOut.survival_score.num = ExpectedFallbackScore(fnIn.words)
        /\ fnIn.words = ExampleWords => fnOut.survival_score.num = 80

C6_Witness ==
    /\ FallbackCalled
    /\ fnIn.words = ExampleWords
    /\ Len(fnIn.answer) = 40
    /\ fnOut.survival_score.num = 80

(***************************************************************************)
(* Claims about generate_initial (checked under SpecScenario).             *)
(***************************************************************************)
InitialCalled == fnIn # Unset /\ fnIn.fn = "initial" /\ fnOut # Unset

\* some contiguous part of the text is one well-formed JSON object
HasParseableObject(text) ==
    \E i \in 1..Len(text) : \E j \in i..Len(text) :
        JsonLoadsOk(SubSeq(text, i, j))

OracleUnusable(reply) ==
    \/ "raise" \in DOMAIN reply
    \/ "text" \in DOMAIN reply /\ ~HasParseableObject(reply.text)

\* C9: generate_initial(theme) never raises and always returns a scenario;
\* whenever the oracle call errors or its text contains no parseable JSON
\* object the result is the canned initial scenario.
C9_InitialAlwaysReturns ==
    InitialCalled =>
        /\ DOMAIN fnOut = {"ret"}
        /\ fnOut.ret # PyNone
        /\ OracleUnusable(fnIn.reply) => fnOut.ret = HauntedHouseScenario

\* a reply whose text holds braces but no well-formed object
C9_Witness ==
    /\ InitialCalled
    /\ "text" \in DOMAIN fnIn.reply
    /\ fnIn.reply.text = <<"junk", "}", "{">>
    /\ fnOut = [ret |-> HauntedHouseScenario]

NextCalled == fnIn # Unset /\ fnIn.fn = "next" /\ fnOut # Unset

\* C11: generate_next never raises; it returns None, and never the canned
\* scenario, whenever the oracle call errors or its text contains no
\* parseable JSON object, and what it returns otherwise is the object the
\* oracle text parsed to (the empty object for empty braces).
C11_NextAbsentOnFailure ==
    NextCalled =>
        /\ DOMAIN fnOut = {"ret"}
        /\ OracleUnusable(fnIn.reply) => fnOut.ret = PyNone
        /\ fnOut.ret # PyNone =>
               /\ "text" \in DOMAIN fnIn.reply
               /\ HasParseableObject(fnIn.reply.text)
               /\ fnOut.ret \in {fnIn.reply.obj, EmptyDict}

\* the oracle call raised, or its text held braces but no well-formed
\* object, and the result is None
C11_Witness ==
    /\ NextCalled
    /\ \/ "raise" \in DOMAIN fnIn.reply
       \/ fnIn.reply.text = <<"{", "junk", "{">>
    /\ fnOut = [ret |-> PyNone]

IsText(v) == "str" \in DOMAIN v

ValidScenario(s) ==
    /\ "description" \in DOMAIN s
    /\ IsText(s.description)
    /\ Len(s.description.str) >= 50
    /\ "title" \in DOMAIN s
    /\ IsText(s.title)
    /\ Len(s.title.str) >= 3
    /\ "survival_factors" \in DOMAIN s
    /\ "list" \in DOMAIN s.survival_factors
    /\ s.survival_factors.list # <<>>

\* C10: generate_initial never returns a scenario whose description is
\* shorter than 50 characters, whose title is shorter than 3 characters, or
\* whose survival_factors is missing or empty (the canned scenario is
\* returned for such an oracle object).
C10_InitialValidated ==
    InitialCalled => "ret" \in DOMAIN fnOut /\ ValidScenario(fnOut.ret)

(***************************************************************************)
(* Claims about the analysis submit_answer acts on (SpecAnalyze).          *)
(***************************************************************************)
AnalyzeCalled == fnIn # Unset /\ fnIn.fn = "analyze" /\ fnOut # Unset

PriorPoorOf(history) ==
    Cardinality({i \in 1..Len(history) : history[i].score < 30})

RiskLevelOf(scenario) ==
    IF "death_risk_level" \in DOMAIN scenario
    THEN scenario.death_risk_level.str ELSE "medium"

\* the drawn reply texts that hold exactly one well-formed object
ObjectTexts ==
    {PlainText,
     <<"fence_json", "{", "members", "}", "fence">>,
     <<"fence", "{", "members", "}", "fence">>,
     <<"junk", "{", "members", "{", "members", "}", "}", "junk">>}

\* the oracle was asked and its object supplied the score
OracleAnswered(in) ==
    /\ Get(in.scenario, "description", Missing) # PyNone
    /\ Get(in.scenario, "survival_factors", Missing) # PyNone
    /\ "text" \in DOMAIN in.reply
    /\ in.reply.text \in ObjectTexts
    /\ \/ "survival_score" \notin DOMAIN in.reply.obj
       \/ "num" \in DOMAIN in.reply.obj.survival_score

\* C3 as stated: the instant_death submit-answer acts on equals the decision
\* table applied to (risk, priorPoor, final score), whichever path produced
\* the score.
C3_TableOnEveryPath ==
    AnalyzeCalled =>
        Truthy(fnOut.instant_death) =
            HazardTable(RiskLevelOf(fnIn.scenario), PriorPoorOf(fnIn.history),
                        fnOut.score.num)

\* C3 amended: when the score came from the fallback scorer, instant_death
\* equals the decision table applied to (risk, priorPoor, score); when it
\* came from the oracle, instant_death is the oracle object's own
\* instant_death field (false when absent), whatever the table gives.
C3_TableOnFallbackOnly ==
    AnalyzeCalled =>
        IF OracleAnswered(fnIn)
        THEN fnOut.instant_death =
                 Get(fnIn.reply.obj, "instant_death", [bool |-> FALSE])
        ELSE fnOut.instant_death =
                 [bool |-> HazardTable(RiskLevelOf(fnIn.scenario),
                                       PriorPoorOf(fnIn.history),
                                       fnOut.score.num)]

\* oracle score 35 under risk = instant, oracle says instant_death = false
C3_Witness ==
    /\ AnalyzeCalled
    /\ OracleAnswered(fnIn)
    /\ RiskLevelOf(fnIn.scenario) = "instant"
    /\ fnOut.score = [num |-> 35]
    /\ Get(fnIn.reply.obj, "instant_death", Missing) = [bool |-> FALSE]
    /\ fnOut.instant_death = [bool |-> FALSE]

\* the reply parsed to an object that has no survival_score
ScoreFieldMissing(in) ==
    /\ OracleAnswered(in)
    /\ "survival_score" \notin DOMAIN in.reply.obj

\* C7 as stated: an oracle object without survival_score yields the result
\* the deterministic fallback scorer computes for that answer.
C7_MissingFieldFallsBack ==
    AnalyzeCalled /\ ScoreFieldMissing(fnIn) =>
        fnOut.analysis_result =
            FallbackDeathAnalysis(fnIn.answer, RiskLevelOf(fnIn.scenario),
                                  PriorPoorOf(fnIn.history))

FilledKeys == {"survival_score", "instant_death", "choice_classification"}

\* C7 amended: an oracle object without survival_score yields the oracle's
\* object with survival_score set to 50, and instant_death and
\* choice_classification defaulted to false and "neutral" when absent; the
\* fallback scorer is not consulted.
C7_MissingFieldDefaulted ==
    AnalyzeCalled /\ ScoreFieldMissing(fnIn) =>
        LET obj == fnIn.reply.obj
            res == fnOut.analysis_result
        IN  /\ DOMAIN res = DOMAIN obj \cup FilledKeys
            /\ res.survival_score = [num |-> 50]
            /\ res.instant_death = Get(obj, "instant_death", [bool |-> FALSE])
            /\ res.choice_classification =
                   Get(obj, "choice_classification", [str |-> "neutral"])
            /\ \A k \in DOMAIN obj \ FilledKeys : res[k] = obj[k]

\* the fallback scorer would have given this answer 60
C7_Witness ==
    /\ AnalyzeCalled
    /\ ScoreFieldMissing(fnIn)
    /\ fnIn.words = <<"carefully">>
    /\ fnOut.score = [num |-> 50]

(***************************************************************************)
(* Claims about the requests (Spec).                                       *)
(***************************************************************************)
Submitted == "action" \in DOMAIN resp /\ resp.action = "submit"
Answered(action) == "action" \in DOMAIN resp /\ resp.action = action

\* C1: a submit-answer, to an existing session, by a player of it whose most
\* recently recorded answer was marked is_eliminated = true is rejected with
\* the dedicated error (400) before any scoring: no oracle call was made and
\* no PlayerAnswer record was created or changed by that request.
C1_EliminatedRejected ==
    (Submitted /\ resp.latest_marked /\ resp.status # 404) =>
        /\ resp.status = 400
        /\ resp.oracle_calls = 0
        /\ ~resp.changed

\* C2: Eliminated is terminal: once one of a player's submissions was
\* evaluated with instant_death = true, every later submit-answer by that
\* player is rejected and every later status query reports the player as
\* eliminated.
C2_EliminatedTerminal ==
    /\ (Submitted /\ resp.was_dead) => resp.status \in {400, 404}
    /\ (Answered("check") /\ resp.was_dead /\ resp.status = 200) =>
           resp.body.is_eliminated = [bool |-> TRUE]
    /\ (Answered("session") /\ resp.status = 200) =>
           dead \subseteq resp.body.eliminated_players

\* C5: every score produced by answer evaluation, on the oracle path and on
\* the fallback path, every score answered to the player and every score
\* stored in a PlayerAnswer record lies in 0..100.
C5_ScoresInRange ==
    /\ \A i \in 1..Len(answers) : answers[i].score \in 0..100
    /\ (Submitted /\ resp.evaluated_score # PyNone) =>
           resp.evaluated_score.num \in 0..100
    /\ (Submitted /\ resp.status = 200) => resp.body.score.num \in 0..100

\* the oracle's 250 was answered and stored as 100, or the seven reckless
\* keywords were scored 0 by the fallback
C5_Witness ==
    /\ Submitted /\ resp.status = 200 /\ resp.changed
    /\ \/ /\ resp.body.score = [num |-> 100]
          /\ \E i \in 1..Len(answers) : answers[i].score = 100
       \/ /\ resp.body.score = [num |-> 0]
          /\ resp.oracle_calls = 2
          /\ "instant_death" \notin DOMAIN resp.body
          /\ \E i \in 1..Len(answers) : answers[i].score = 0

\* C8: for an existing session and an Active player of it, get-scenario,
\* submit-answer and get-results each answer successfully under every
\* combination of oracle outcomes.
C8_AlwaysSucceeds ==
    (/\ "action" \in DOMAIN resp
     /\ resp.action \in {"scenario", "submit", "results"}
     /\ resp.status # 404
     /\ ~resp.was_dead) => resp.status = 200

(***************************************************************************)
(* Claims about the choice-pattern classifier (SpecPattern).               *)
(***************************************************************************)
PatternCalled == fnIn # Unset /\ fnIn.fn = "pattern" /\ fnOut # Unset

RECURSIVE Total(_)
Total(scores) ==
    IF scores = <<>> THEN 0 ELSE scores[Len(scores)]
                                 + Total(SubSeq(scores, 1, Len(scores) - 1))

TwoPoor(scores) ==
    \E i, j \in 1..Len(scores) : i < j /\ scores[i] < 30 /\ scores[j] < 30

\* C12: the classifier returns new_player for the empty sequence; otherwise
\* consistently_reckless if at least 2 scores are below 30, even when the
\* average is 70 or more; otherwise cautious_survivor if the average is at
\* least 70; otherwise mixed_decisions if it is at least 50; otherwise
\* poor_judgment.
C12_ChoicePattern ==
    PatternCalled =>
        LET scores == fnIn.scores
            n == Len(scores)
        IN  /\ (fnOut.ret = "new_player") = (n = 0)
            /\ (fnOut.ret = "consistently_reckless") = TwoPoor(scores)
            /\ (fnOut.ret = "cautious_survivor") =
                   (n > 0 /\ ~TwoPoor(scores) /\ Total(scores) >= 70 * n)
            /\ (fnOut.ret = "mixed_decisions") =
                   (/\ n > 0 /\ ~TwoPoor(scores)
                    /\ Total(scores) < 70 * n /\ Total(scores) >= 50 * n)
            /\ (fnOut.ret = "poor_judgment") =
                   (n > 0 /\ ~TwoPoor(scores) /\ Total(scores) < 50 * n)

\* two scores below 30 with an average above 70: consistently_reckless
C12_Witness ==
    /\ PatternCalled
    /\ fnIn.scores = <<29, 29, 100, 100, 100>>
    /\ fnOut.ret = "consistently_reckless"

(***************************************************************************)
(* Further claims about the requests (Spec).                               *)
(***************************************************************************)
\* the players of the roster whose most recently recorded answer was marked
\* is_eliminated = true
LatestMarked ==
    {pl.id : pl \in {q \in players :
                        /\ RowsOf(answers, q.id) # {}
                        /\ SetMax(RowsOf(answers, q.id)) \in marked}}

\* C13: all status computations agree: the submit-answer gate,
\* check-elimination, the session listing and the results roster split each
\* classify a player as Eliminated exactly when that player's most recently
\* recorded answer was marked is_eliminated = true.
C13_StatusFromLatestAnswer ==
    /\ (Submitted /\ resp.status # 404) =>
           ((resp.status = 400) = resp.latest_marked)
    /\ (Answered("check") /\ resp.status = 200) =>
           ((resp.body.is_eliminated = [bool |-> TRUE]) = resp.latest_marked)
    /\ (Answered("session") /\ resp.status = 200) =>
           resp.body.eliminated_players = LatestMarked
    /\ (Answered("results") /\ resp.status = 200) =>
           resp.body.eliminated.num = Cardinality(LatestMarked)

\* the record's is_eliminated flag: set on it by the handler, or stored in it
FlaggedEliminated(i) ==
    \/ i \in marked
    \/ Truthy(Get(answers[i], "is_eliminated", PyNone))

HasEliminationReason(i) ==
    LET reason == Get(answers[i], "elimination_reason", PyNone)
    IN  IsString(reason) /\ reason.str # ""

\* C14: each PlayerAnswer record has a non-empty elimination_reason exactly
\* when its is_eliminated flag is true (the evaluator's death_reason, or the
\* fixed default string when death_reason is absent or null).
C14_ReasonIffEliminated ==
    \A i \in 1..Len(answers) : FlaggedEliminated(i) = HasEliminationReason(i)

\* the records of the key of the request just answered
RecordsOfRequest(table) ==
    {i \in 1..Len(table) :
        /\ table[i].session_id = SessionByCode(resp'.request.session_code).id
        /\ table[i].player_id = resp'.request.player_id
        /\ table[i].question_number = resp'.request.question_number}

\* C15: the submit-answer requests being handled one after the other, there
\* is at most one record per (session, player, question_number), and a
\* submission for a question that already has a record replaces that
\* record's answer_text and score and leaves the number of records unchanged.
C15_ResubmissionOverwrites ==
    [][(Submitted' /\ resp'.status = 200) =>
          /\ \A i, j \in 1..Len(answers') :
                 (/\ answers'[i].session_id = answers'[j].session_id
                  /\ answers'[i].player_id = answers'[j].player_id
                  /\ answers'[i].question_number = answers'[j].question_number)
                 => i = j
          /\ RecordsOfRequest(answers') # {}
          /\ RecordsOfRequest(answers) # {} =>
                 /\ Len(answers') = Len(answers)
                 /\ \A i \in 1..Len(answers) :
                        IF i \in RecordsOfRequest(answers)
                        THEN /\ answers'[i].answer_text = resp'.request.answer_text
                             /\ answers'[i].score = resp'.evaluated_score.num
                        ELSE answers'[i] = answers[i]]_vars

\* a second answer to question 1 has replaced the first, question 2 standing
C15_Witness ==
    /\ Submitted /\ resp.status = 200 /\ resp.changed
    /\ resp.request.question_number = 1
    /\ Len(answers) = 2
    /\ answers[1].question_number = 1
    /\ answers[1].answer_text = resp.request.answer_text
    /\ answers[2].question_number = 2

(***************************************************************************)
(* Two submit-answer requests for one key handled by two server processes  *)
(* on the same database (SpecRace).  Each request is three steps: the      *)
(* checks and the evaluation (lines 206-286), the lookup of the record     *)
(* (289-293), the write and the response (295-362).  fnIn holds the        *)
(* requests in flight.                                                     *)
(***************************************************************************)
Workers == {1, 2}

RaceRequests ==
    {[session_code |-> "S1", player_id |-> 1, question_number |-> 1,
      answer_text |-> Join(ws)] : ws \in GameWordLists}

\* the store before the two requests: empty, or holding the key's record
RaceTables ==
    {<<>>,
     <<[id |-> 1, session_id |-> 1, player_id |-> 1, question_number |-> 1,
        answer_text |-> Join(<<"carefully">>), score |-> 60]>>}

InitRace ==
    /\ answers \in RaceTables
    /\ marked = {}
    /\ dead = {}
    /\ resp = Unset
    /\ fnIn = [w \in Workers |-> [pc |-> "idle"]]
    /\ fnOut = Unset

\* lines 206-286: the checks, the scenario, the history, the analysis
RaceEvaluate(w) ==
    /\ fnIn[w].pc = "idle"
    /\ \E request \in RaceRequests :
       \E rejection \in {SubmitRejection(answers, request)} :
         IF rejection # PyNone
         THEN /\ fnIn' = [fnIn EXCEPT ![w] = [pc |-> "done", wrote |-> FALSE,
                                              stale |-> FALSE]]
              /\ resp' = Record("submit", request.player_id, request,
                                rejection, answers, 0, PyNone)
         ELSE
           \E scenario_reply \in SubmitScenarioReplies,
              analysis_reply \in GameAnalysisReplies,
              session \in {SessionByCode(request.session_code)},
              player_history \in {PlayerHistory(answers, request.player_id)} :
             \E scenario \in {SubmitScenario(session.theme,
                                             request.question_number,
                                             scenario_reply)} :
             \E evaluation \in {SubmitEvaluation(scenario, request.answer_text,
                                                 player_history,
                                                 analysis_reply)} :
               /\ fnIn' = [fnIn EXCEPT ![w] =
                              [pc |-> "evaluated", request |-> request,
                               session |-> session,
                               player_history |-> player_history,
                               evaluation |-> evaluation]]
               /\ resp' = resp
    /\ UNCHANGED <<answers, marked, dead, fnOut>>

\* lines 289-293: existing_answer = db.query(...).first()
RaceLookup(w) ==
    /\ fnIn[w].pc = "evaluated"
    /\ fnIn' = [fnIn EXCEPT ![w] =
                   SetAttr(SetAttr(fnIn[w], "pc", "looked_up"), "existing",
                           ExistingAnswerId(answers, fnIn[w].session,
                                            fnIn[w].request.player_id,
                                            fnIn[w].request.question_number))]
    /\ UNCHANGED <<answers, marked, dead, resp, fnOut>>

\* lines 295-362: the write with the record found earlier, and the response.
\* stale: the lookup, made now, would find something else
RaceWrite(w) ==
    /\ fnIn[w].pc = "looked_up"
    /\ \E request \in {fnIn[w].request}, evaluation \in {fnIn[w].evaluation} :
       \E saved \in {SaveAnswerAt(answers, fnIn[w].existing, fnIn[w].session,
                                  request, evaluation)},
          stale \in {fnIn[w].existing
                         # ExistingAnswerId(answers, fnIn[w].session,
                                            request.player_id,
                                            request.question_number)} :
       \E narrative_reply \in
              IF ~saved.raised /\ Truthy(evaluation.instant_death)
              THEN GameNarrativeReplies ELSE {OracleFailure} :
       \E response \in
              {IF saved.raised THEN Unhandled("TypeError")
               ELSE SubmitResponse(saved.table,
                                   PlayerInSession(request.player_id,
                                                   fnIn[w].session),
                                   fnIn[w].player_history, evaluation,
                                   narrative_reply)} :
         /\ answers' = saved.table
         /\ marked' = IF saved.set_eliminated # 0
                      THEN marked \cup {saved.set_eliminated} ELSE marked
         /\ dead' = IF Truthy(evaluation.instant_death)
                    THEN dead \cup {request.player_id} ELSE dead
         /\ resp' = Record("submit", request.player_id, request, response,
                           saved.table, 0, evaluation.score)
         /\ fnIn' = [fnIn EXCEPT ![w] =
                        [pc |-> "done", wrote |-> ~saved.raised,
                         stale |-> stale, existing |-> fnIn[w].existing,
                         request |-> request, evaluation |-> evaluation]]
    /\ UNCHANGED fnOut

NextRace ==
    \E w \in Workers : RaceEvaluate(w) \/ RaceLookup(w) \/ RaceWrite(w)

SpecRace == InitRace /\ [][NextRace]_vars

InFlight == DOMAIN fnIn = Workers

\* two records of one (session, player, question_number)
DuplicateRecords ==
    \E i, j \in 1..Len(answers) :
        /\ i # j
        /\ answers[i].session_id = answers[j].session_id
        /\ answers[i].player_id = answers[j].player_id
        /\ answers[i].question_number = answers[j].question_number

InsertedOnStaleLookup(w) ==
    /\ fnIn[w].pc = "done" /\ fnIn[w].wrote
    /\ fnIn[w].existing = 0 /\ fnIn[w].stale

\* C16: with two submit-answer requests in flight for the same (session,
\* player, question_number) and no uniqueness constraint at the store, two
\* records for the key exist exactly when a request has inserted after both
\* had passed the lookup finding none; a request that wrote on a lookup still
\* current never duplicates the key.
C16_RaceDuplicates ==
    InFlight =>
        (DuplicateRecords = (\E w \in Workers : InsertedOnStaleLookup(w)))

\* both requests looked the key up before either wrote, and both inserted
C16_Witness ==
    /\ InFlight
    /\ \A w \in Workers : fnIn[w].pc = "done" /\ fnIn[w].wrote
                          /\ fnIn[w].existing = 0
    /\ Len(answers) = 2
    /\ DuplicateRecords

(***************************************************************************)
(* SpecResults: the two branches of get_results after the roster split,    *)
(* on drawn rosters.  CallAssembleResults is the try block (426-462),      *)
(* CallRouteFallback the except clauses (464-472).                         *)
(***************************************************************************)
RosterNames == <<"ana", "ben", "cy", "dee", "eve">>
ResultTotals == {0, 40, 90}

\* lines 409-420: a player's entry, as ResultsPlayerData builds it
PlayerData(i, total_score, is_eliminated) ==
    LET player_data ==
            [player_name |-> [str |-> RosterNames[i]],
             total_score |-> total_score,
             answer_count |-> 1,
             average_score |-> [ratio |-> <<total_score, 1>>],
             is_eliminated |-> [bool |-> is_eliminated]]
    IN  IF is_eliminated
        THEN SetAttr(player_data, "elimination_reason",
                     [str |-> "Poor survival choices"])
        ELSE player_data

FullEntry(name, rank) ==
    [player_name |-> name, rank |-> [num |-> rank],
     survived |-> [bool |-> rank = 1], fate_title |-> [str |-> "A fate"],
     narrative |-> [str |-> "A story"],
     survival_analysis |-> [str |-> "An analysis"]]

\* what the oracle may answer about these players: nothing usable, the
\* entries asked for, entries without names, one name repeated, one entry
\* too many, one too few, elements that are no objects
ResultsRepliesFor(players_data) ==
    LET sorted == SortedByTotalScore(players_data)
        n == Len(sorted)
        good == [i \in 1..n |-> FullEntry(sorted[i].player_name, i)]
    IN  {OracleFailure,
         [arr |-> good],
         [arr |-> [i \in 1..n |-> [rank |-> [num |-> i]]]],
         [arr |-> [i \in 1..n |-> FullEntry(sorted[1].player_name, i)]],
         [arr |-> Append(good, FullEntry([str |-> "zed"], n + 1))],
         [arr |-> SubSeq(good, 1, n - 1)],
         [arr |-> [i \in 1..n |-> [str |-> "ana"]]]}

ResultsInputs ==
    UNION {
      {LET all_data == [i \in 1..n |-> PlayerData(i, totals[i], gone[i])]
           players_data == SelectSeq2(all_data, [i \in 1..n |-> ~gone[i]])
           eliminated_players_data == SelectSeq2(all_data, gone)
       IN  {[fn |-> "results", roster |-> all_data,
             players_data |-> players_data,
             eliminated_players_data |-> eliminated_players_data,
             results_reply |-> results_reply,
             narrative_reply |-> narrative_reply] :
               results_reply \in
                   IF players_data = <<>> THEN {OracleFailure}
                   ELSE ResultsRepliesFor(players_data),
               narrative_reply \in
                   IF eliminated_players_data = <<>> THEN {OracleFailure}
                   ELSE GameNarrativeReplies} :
         totals \in [1..n -> ResultTotals], gone \in [1..n -> BOOLEAN]} :
      n \in 0..MaxRoster}

InitResults ==
    /\ InitGame
    /\ fnIn \in UNION ResultsInputs
    /\ fnOut = Unset

CallAssembleResults ==
    /\ fnIn.fn = "results"
    /\ fnOut = Unset
    /\ fnOut' = [path |-> "try",
                 ret |-> AssembleResults(fnIn.players_data,
                                         fnIn.eliminated_players_data,
                                         fnIn.results_reply,
                                         fnIn.narrative_reply)]
    /\ UNCHANGED fnIn
    /\ UnchangedGame

CallRouteFallback ==
    /\ fnIn.fn = "results"
    /\ fnOut = Unset
    /\ fnOut' = [path |-> "except",
                 ret |-> RouteFallbackResults(fnIn.players_data,
                                              fnIn.eliminated_players_data)]
    /\ UNCHANGED fnIn
    /\ UnchangedGame

NextResults == CallAssembleResults \/ CallRouteFallback

SpecResults == InitResults /\ [][NextResults]_vars

ResultsCalled == "path" \in DOMAIN fnOut

\* the entries of the result list that name the player
EntriesNaming(name) ==
    {i \in 1..Len(fnOut.ret.results) :
        Get(fnOut.ret.results[i], "player_name", PyNone) = name}

\* C17: the result list of get-results contains exactly one entry per player
\* of the session's roster, matched by player_name: as many entries as
\* players, and for each player one entry with that name.
C17_OneEntryPerPlayer ==
    ResultsCalled =>
        /\ Len(fnOut.ret.results) = Len(fnIn.roster)
        /\ \A i \in 1..Len(fnIn.roster) :
               Cardinality(EntriesNaming(fnIn.roster[i].player_name)) = 1

SixFields ==
    {"player_name", "rank", "survived", "fate_title", "narrative",
     "survival_analysis"}

FallbackBuilt ==
    \/ fnOut.path = "except"
    \/ /\ fnOut.path = "try"
       /\ fnIn.players_data # <<>>
       /\ fnIn.results_reply = OracleFailure

ActiveEntries ==
    {i \in 1..Len(fnOut.ret.results) :
        \E k \in 1..Len(fnIn.players_data) :
            fnIn.players_data[k].player_name
                = Get(fnOut.ret.results[i], "player_name", PyNone)}

TotalOfEntry(i) ==
    LET k == CHOOSE k \in 1..Len(fnIn.roster) :
                 fnIn.roster[k].player_name = fnOut.ret.results[i].player_name
    IN  fnIn.roster[k].total_score

C20_EliminatedNeverSurvive ==
    (Answered("results") /\ resp.status = 200) =>
        \A pl \in {q \in players : q.id \in LatestMarked} :
            /\ \E i \in 1..Len(resp.body.results) :
                   /\ Get(resp.body.results[i], "player_name", PyNone)
                          = [str |-> pl.name]
                   /\ Truthy(Get(resp.body.results[i], "eliminated", PyNone))
            /\ \A i \in 1..Len(resp.body.results) :
                   Get(resp.body.results[i], "player_name", PyNone)
                       = [str |-> pl.name]
                   => ~Truthy(Get(resp.body.results[i], "survived", PyNone))

\* the elimination entries were built without the narrative oracle
NarrativeFallback ==
    \/ fnOut.path = "except"
    \/ fnOut.path = "try" /\ fnIn.narrative_reply = OracleFailure

Conns == {"a", "b", "c"}
HubSessions == {"S1", "S2"}

\* the channels a viewer may open: a and b watch S1, c either session
SessionsOf(c) == IF c = "c" THEN HubSessions ELSE {"S1"}

\* the text frames a viewer sends: two JSON objects, and text that is no JSON
\* what each viewer sends
FramesOf(c) ==
    IF c = "a" THEN {PlainText, <<"junk">>}
    ELSE IF c = "b" THEN {<<"{", "}">>}
    ELSE {PlainText}

HubFrames == UNION {FramesOf(c) : c \in Conns}

\* self.active_connections.get(session_code, [])
Registered(active_connections, session_code) ==
    IF session_code \in DOMAIN active_connections
    THEN active_connections[session_code] ELSE <<>>

\* ConnectionManager.connect after the accept, lines 13-15
ConnectRegister(active_connections, websocket, session_code) ==
    SetAttr(active_connections, session_code,
            Append(Registered(active_connections, session_code), websocket))

\* list.remove(x): without the first element equal to x; ValueError if none
ListRemove(list, x) ==
    IF \A i \in 1..Len(list) : list[i] # x THEN [raised |-> "ValueError"]
    ELSE LET first == SetMin({i \in 1..Len(list) : list[i] = x})
         IN  [list |-> [i \in 1..(Len(list) - 1) |->
                          IF i < first THEN list[i] ELSE list[i + 1]]]

ManagerDisconnectMutant(active_connections, websocket, session_code) ==
    IF session_code \notin DOMAIN active_connections
    THEN [mapping |-> active_connections]
    ELSE LET removed == ListRemove(active_connections[session_code], websocket)
         IN  IF "raised" \in DOMAIN removed THEN removed
             ELSE [mapping |-> [active_connections EXCEPT
                                   ![session_code] = removed.list]]

\* ConnectionManager.disconnect, lines 17-21
ManagerDisconnect(active_connections, websocket, session_code) ==
    IF session_code \notin DOMAIN active_connections
    THEN [mapping |-> active_connections]
    ELSE LET removed == ListRemove(active_connections[session_code], websocket)
         IN  IF "raised" \in DOMAIN removed THEN removed
             ELSE IF removed.list = <<>>
             THEN [mapping |-> [k \in DOMAIN active_connections \ {session_code}
                                   |-> active_connections[k]]]
             ELSE [mapping |-> [active_connections EXCEPT
                                   ![session_code] = removed.list]]

\* the bookkeeping of the broadcasts in progress for a session when its list
\* changes: who stayed registered and reachable, whether the list changed,
\* whether the list object under iteration left the mapping
NoteChange(tasks, session_code, gone, deleted) ==
    [t \in DOMAIN tasks |->
        IF tasks[t].pc = "sending" /\ tasks[t].session = session_code
        THEN [tasks[t] EXCEPT !.call.stable = @ \ gone,
                              !.call.mutated = TRUE,
                              !.call.orphan = @ \/ deleted]
        ELSE tasks[t]]

RECURSIVE Concat(_, _)
Concat(f, keys) ==
    IF keys = {} THEN <<>>
    ELSE LET k == CHOOSE k \in keys : TRUE
         IN  f[k] \o Concat(f, keys \ {k})

BroadcastListMutant(active_connections, session_code) ==
    Concat(active_connections, DOMAIN active_connections)

\* lines 24-25: the list the loop runs over; nothing to do for a session
\* that is not in the mapping
BroadcastList(active_connections, session_code) ==
    IF session_code \in DOMAIN active_connections
    THEN active_connections[session_code] ELSE <<>>

LoopStepMutant(hub, out, c) ==
    LET call == hub.tasks[c].call
        session_code == hub.tasks[c].session
        list == IF call.orphan THEN <<>>
                ELSE BroadcastList(hub.active_connections, session_code)
        finished(after) ==
            [hub |-> [hub EXCEPT !.tasks[c].pc = "receiving",
                                 !.tasks[c].call = Unset],
             out |-> [out EXCEPT !.last =
                         [sender |-> c, session |-> session_code,
                          message |-> after.message, start |-> after.start,
                          stable |-> after.stable,
                          delivered |-> after.delivered,
                          failed |-> after.failed,
                          mutated |-> after.mutated,
                          mapping_before |-> after.mapping,
                          mapping_after |-> hub.active_connections]]]
    IN  IF call.it_index >= Len(list) THEN finished(call)
        ELSE LET connection == list[call.it_index + 1]
             IN  IF hub.sockets[connection] = "open"
                 THEN [hub |-> [hub EXCEPT
                                   !.tasks[c].call.it_index = @ + 1,
                                   !.tasks[c].call.delivered =
                                       Append(@, connection)],
                       out |-> [out EXCEPT !.received[connection] =
                                               Append(@, call.message)]]
                 ELSE finished([call EXCEPT !.failed = Append(@, connection)])

\* send_to_session, lines 24-29, from one await to the next: the loop takes
\* the next connection of the list and sends, or is over and the handler is
\* back at receive_text.  A send to a closed socket raises, which the bare
\* except swallows.
LoopStep(hub, out, c) ==
    LET call == hub.tasks[c].call
        session_code == hub.tasks[c].session
        list == IF call.orphan THEN <<>>
                ELSE BroadcastList(hub.active_connections, session_code)
    IN  IF call.it_index >= Len(list)
        THEN [hub |-> [hub EXCEPT !.tasks[c].pc = "receiving",
                                  !.tasks[c].call = Unset],
              out |-> [out EXCEPT !.last =
                          [sender |-> c, session |-> session_code,
                           message |-> call.message, start |-> call.start,
                           stable |-> call.stable,
                           delivered |-> call.delivered,
                           failed |-> call.failed,
                           mutated |-> call.mutated,
                           mapping_before |-> call.mapping,
                           mapping_after |-> hub.active_connections]]]
        ELSE LET connection == list[call.it_index + 1]
             IN  IF hub.sockets[connection] = "open"
                 THEN [hub |-> [hub EXCEPT
                                   !.tasks[c].call.it_index = @ + 1,
                                   !.tasks[c].call.delivered =
                                       Append(@, connection)],
                       out |-> [out EXCEPT !.received[connection] =
                                               Append(@, call.message)]]
                 ELSE [hub |-> [hub EXCEPT
                                   !.tasks[c].call.it_index = @ + 1,
                                   !.tasks[c].call.failed =
                                       Append(@, connection)],
                       out |-> out]

InitHub ==
    /\ InitGame
    /\ fnIn = [active_connections |-> [k \in {} |-> <<>>],
               tasks |-> [c \in Conns |->
                             [pc |-> "idle", session |-> "", call |-> Unset]],
               sockets |-> [c \in Conns |-> "none"],
               frames |-> 0]
    /\ fnOut = [received |-> [c \in Conns |-> <<>>],
                last |-> Unset, frame |-> Unset]

\* a viewer opens the channel of a session: the handler starts and waits in
\* websocket.accept(), line 12
HubOpen(c) ==
    /\ fnIn.tasks[c].pc = "idle"
    /\ \E session_code \in SessionsOf(c) :
           fnIn' = [fnIn EXCEPT !.tasks[c].pc = "accepting",
                                !.tasks[c].session = session_code,
                                !.sockets[c] = "open"]
    /\ UNCHANGED fnOut
    /\ UnchangedGame

\* lines 13-15, then the handler waits in receive_text, line 38
HubRegister(c) ==
    /\ fnIn.tasks[c].pc = "accepting"
    /\ fnIn' = [fnIn EXCEPT
                   !.active_connections =
                       ConnectRegister(@, c, fnIn.tasks[c].session),
                   !.tasks = [NoteChange(@, fnIn.tasks[c].session, {}, FALSE)
                                  EXCEPT ![c].pc = "receiving"]]
    /\ UNCHANGED fnOut
    /\ UnchangedGame

\* lines 38-42: a text frame arrives; json.loads refuses text that is no
\* JSON and the exception, which is no WebSocketDisconnect, ends the handler
\* and with it the connection, leaving the mapping as it is; otherwise the
\* broadcast starts
HubReceive(c) ==
    /\ fnIn.tasks[c].pc = "receiving"
    /\ fnIn.sockets[c] = "open"
    /\ fnIn.frames < MaxFrames
    /\ \E data \in FramesOf(c) :
         IF ~JsonLoadsOk(data)
         THEN /\ fnIn' = [fnIn EXCEPT !.tasks[c].pc = "crashed",
                                      !.sockets[c] = "closed",
                                      !.frames = @ + 1,
                                      !.tasks = NoteChange(@, fnIn.tasks[c].session,
                                                           {c}, FALSE)]
              /\ fnOut' = [fnOut EXCEPT !.frame =
                              [sender |-> c, data |-> data, relayed |-> FALSE,
                               handler_ended |-> TRUE]]
         ELSE \E list \in {BroadcastList(fnIn.active_connections,
                                         fnIn.tasks[c].session)} :
              \E started \in
                   {[fnIn EXCEPT
                       !.frames = @ + 1,
                       !.tasks[c].pc = "sending",
                       !.tasks[c].call =
                           [message |-> data, it_index |-> 0,
                            orphan |-> fnIn.tasks[c].session
                                           \notin DOMAIN fnIn.active_connections,
                            start |-> list,
                            stable |-> {list[i] : i \in
                                          {j \in 1..Len(list) :
                                             fnIn.sockets[list[j]] = "open"}},
                            delivered |-> <<>>, failed |-> <<>>,
                            mutated |-> FALSE,
                            mapping |-> fnIn.active_connections]]} :
              \E after \in
                   {LoopStep(started,
                             [fnOut EXCEPT !.frame =
                                 [sender |-> c, data |-> data,
                                  relayed |-> TRUE, handler_ended |-> FALSE]],
                             c)} :
                /\ fnIn' = after.hub
                /\ fnOut' = after.out
    /\ UnchangedGame

\* the send awaited at line 27 is over: the loop goes on
HubDeliver(c) ==
    /\ fnIn.tasks[c].pc = "sending"
    /\ \E after \in {LoopStep(fnIn, fnOut, c)} :
         /\ fnIn' = after.hub
         /\ fnOut' = after.out
    /\ UnchangedGame

\* the viewer goes away: the socket is closed under the handler
HubClientClose(c) ==
    /\ fnIn.tasks[c].pc \in {"receiving", "sending"}
    /\ fnIn.sockets[c] = "open"
    /\ fnIn' = [fnIn EXCEPT
                   !.sockets[c] = "closed",
                   !.tasks = [t \in DOMAIN @ |->
                                 IF @[t].pc = "sending"
                                 THEN [@[t] EXCEPT !.call.stable = @ \ {c}]
                                 ELSE @[t]]]
    /\ UNCHANGED fnOut
    /\ UnchangedGame

\* lines 44-45: receive_text raises WebSocketDisconnect
HubDisconnect(c) ==
    /\ fnIn.tasks[c].pc = "receiving"
    /\ fnIn.sockets[c] = "closed"
    /\ \E outcome \in {ManagerDisconnect(fnIn.active_connections, c,
                                         fnIn.tasks[c].session)} :
         IF "raised" \in DOMAIN outcome
         THEN fnIn' = [fnIn EXCEPT !.tasks[c].pc = "crashed"]
         ELSE fnIn' = [fnIn EXCEPT
                          !.active_connections = outcome.mapping,
                          !.tasks =
                              [NoteChange(@, fnIn.tasks[c].session, {c},
                                          fnIn.tasks[c].session
                                              \notin DOMAIN outcome.mapping)
                                   EXCEPT ![c].pc = "done"]]
    /\ UNCHANGED fnOut
    /\ UnchangedGame

NextHub ==
    \E c \in Conns :
        \/ HubOpen(c)
        \/ HubRegister(c)
        \/ HubReceive(c)
        \/ HubDeliver(c)
        \/ HubClientClose(c)
        \/ HubDisconnect(c)

SpecHub == InitHub /\ [][NextHub]_vars

HubRunning == "active_connections" \in DOMAIN fnIn

Elements(seq) == {seq[i] : i \in 1..Len(seq)}

BroadcastDone == HubRunning /\ fnOut.last # Unset

\* C22: broadcast(S, m) delivers m unchanged to exactly the connections
\* registered for S, the sender included, and to no other connection.  For
\* the first broadcast, when no connect or disconnect of S ran meanwhile:
\* a connection of the list that stayed reachable holds exactly m, and a
\* connection outside the list holds nothing.
C22_BroadcastReachesSession ==
    (BroadcastDone /\ ~fnOut.last.mutated /\ fnIn.frames = 1) =>
        /\ fnOut.last.sender \in Elements(fnOut.last.start)
        /\ \A x \in Conns :
             /\ x \in Elements(fnOut.last.start) \cap fnOut.last.stable =>
                    fnOut.received[x] = <<fnOut.last.message>>
             /\ x \notin Elements(fnOut.last.start) =>
                    fnOut.received[x] = <<>>
             /\ fnOut.received[x] # <<>> =>
                    /\ fnIn.tasks[x].session = fnOut.last.session
                    /\ fnOut.received[x] = <<fnOut.last.message>>

\* a and b both got the frame a sent to S1 while c, watching S2, got nothing
C22_Witness ==
    /\ BroadcastDone /\ ~fnOut.last.mutated /\ fnIn.frames = 1
    /\ fnOut.last.sender = "a"
    /\ fnOut.last.delivered = <<"a", "b">>
    /\ fnOut.received["a"] = <<PlainText>>
    /\ fnOut.received["b"] = <<PlainText>>
    /\ fnIn.tasks["c"].pc = "receiving" /\ fnIn.tasks["c"].session = "S2"
    /\ fnOut.received["c"] = <<>>

\* C23: within one broadcast call a delivery failure is swallowed: the call
\* completes, the loop has gone through the whole list, every connection of
\* the list that stayed reachable has received the message, and the
\* session's entry of the mapping is what it was.
C23_FailureSwallowed ==
    (BroadcastDone /\ ~fnOut.last.mutated /\ fnOut.last.failed # <<>>) =>
        /\ Elements(fnOut.last.delivered) \cup Elements(fnOut.last.failed)
               = Elements(fnOut.last.start)
        /\ Elements(fnOut.last.start) \cap fnOut.last.stable
               \subseteq Elements(fnOut.last.delivered)
        /\ \A x \in Elements(fnOut.last.delivered) :
               \E i \in 1..Len(fnOut.received[x]) :
                   fnOut.received[x][i] = fnOut.last.message
        /\ Registered(fnOut.last.mapping_after, fnOut.last.session)
               = Registered(fnOut.last.mapping_before, fnOut.last.session)

\* the send to a, first of the list, failed and b still got the frame
C23_Witness ==
    /\ BroadcastDone /\ ~fnOut.last.mutated
    /\ fnOut.last.start = <<"a", "b">>
    /\ fnOut.last.failed = <<"a">>
    /\ fnOut.last.delivered = <<"b">>

\* the connections connected to the session and not yet disconnected
ConnectedNow(session_code) ==
    {c \in Conns : /\ fnIn.tasks[c].session = session_code
                   /\ fnIn.tasks[c].pc \in {"receiving", "sending", "crashed"}}

\* C24: after any sequence of connect and disconnect operations the mapping
\* holds, for each session_code, exactly the connections connected and not
\* yet disconnected, each once, and no session_code is mapped to an empty
\* collection.
C24_MappingExact ==
    HubRunning =>
        /\ DOMAIN fnIn.active_connections
               = {sc \in HubSessions : ConnectedNow(sc) # {}}
        /\ \A sc \in DOMAIN fnIn.active_connections :
               /\ Elements(fnIn.active_connections[sc]) = ConnectedNow(sc)
               /\ Len(fnIn.active_connections[sc])
                      = Cardinality(ConnectedNow(sc))

\* a has left S1 where b stays, and c was the last to leave S2
C24_Witness ==
    /\ HubRunning
    /\ fnIn.tasks["a"].pc = "done"
    /\ fnIn.tasks["c"].pc = "done" /\ fnIn.tasks["c"].session = "S2"
    /\ fnIn.tasks["b"].pc = "receiving"
    /\ fnIn.active_connections = [sc \in {"S1"} |-> <<"b">>]

\* C25: connect, disconnect and broadcast on one session_code are safe when
\* interleaved: every connection that stays registered (and reachable) for
\* the session during the whole broadcast receives the message exactly once.
C25_InterleavingSafe ==
    BroadcastDone =>
        \A x \in fnOut.last.stable :
            Cardinality({i \in 1..Len(fnOut.last.delivered) :
                            fnOut.last.delivered[i] = x}) = 1

\* C26: every text frame a viewer sends is relayed whatever its content: a
\* frame that is no valid JSON starts a broadcast like any other and does not
\* end the sender's handler and connection.
C26_OpaqueRelay ==
    (HubRunning /\ fnOut.frame # Unset) =>
        /\ fnOut.frame.relayed
        /\ ~fnOut.frame.handler_ended
        /\ fnIn.tasks[fnOut.frame.sender].pc # "crashed"

(***************************************************************************)
(* SpecBlocked: a handler inside an oracle call.  AIService uses the        *)
(* synchronous OpenAI client (ai_service.py:13) and calls                   *)
(* self.client.chat.completions.create without await and without a worker   *)
(* thread, so the coroutine, and with it the event loop's only thread,      *)
(* stays inside the call until the call returns or raises.  The deadline    *)
(* of "async with timeout(n)" is a timer callback of that same event loop   *)
(* (it cancels the task at its next suspension point): while the thread is  *)
(* inside the call no callback runs, and when the call comes back the       *)
(* block is left without a suspension point and the timer is cancelled on   *)
(* exit.  The specification therefore has no step that delivers the         *)
(* timeout: time only passes, or the call comes back.  fnIn holds the       *)
(* handler's position and the seconds spent in the call, fnOut the          *)
(* response.                                                               *)
(***************************************************************************)
MaxElapsed == 35
SecondsPerTick == 5

ScenarioTimeout == 30
SubmitTimeout == 20
ResultsTimeout == 25

\* the n of the "async with timeout(n)" that encloses the action's call
TimeoutSeconds(action) ==
    CASE action = "scenario" -> ScenarioTimeout
      [] action = "submit" -> SubmitTimeout
      [] action = "results" -> ResultsTimeout

BlockedRequests ==
    {[action |-> "scenario", question_number |-> q, answer_text |-> <<>>,
      scenario_reply |-> OracleFailure] : q \in 1..MaxQuestion}
    \cup {[action |-> "submit", question_number |-> 1,
           answer_text |-> Join(ws), scenario_reply |-> r] :
              ws \in GameWordLists, r \in SubmitScenarioReplies}
    \cup {[action |-> "results", question_number |-> 0, answer_text |-> <<>>,
           scenario_reply |-> OracleFailure]}

BlockedRepliesFor(action) ==
    CASE action = "scenario" -> GameScenarioReplies
      [] action = "submit" -> GameAnalysisReplies
      [] action = "results" -> GameResultsReplies

\* the handler from the point where its oracle call has come back with
\* reply: the rest of the try block and the response
ResponseAfterCall(request, reply) ==
    CASE request.action = "scenario" ->
             GetDynamicScenarioOutcome("S1", request.question_number, 1, reply)
      [] request.action = "results" ->
             GetResultsOutcome(<<>>, "S1", reply, OracleFailure)
      [] request.action = "submit" ->
             LET session == SessionByCode("S1")
                 submit == [session_code |-> "S1", player_id |-> 1,
                            question_number |-> request.question_number,
                            answer_text |-> request.answer_text]
                 scenario == SubmitScenario(session.theme,
                                            request.question_number,
                                            request.scenario_reply)
                 evaluation == SubmitEvaluation(scenario, request.answer_text,
                                                PlayerHistory(<<>>, 1), reply)
                 saved == SaveAnswer(<<>>, session, submit, evaluation)
             IN  IF saved.raised THEN Unhandled("TypeError")
                 ELSE SubmitResponse(saved.table, PlayerInSession(1, session),
                                     PlayerHistory(<<>>, 1), evaluation,
                                     OracleFailure)

InitBlocked == InitGame /\ InitFn

\* the handler enters the timeout block and makes its oracle call
BlockedStart ==
    /\ IF fnIn = Unset THEN TRUE ELSE fnIn.pc = "returned"
    /\ \E request \in BlockedRequests :
           fnIn' = [pc |-> "oracle", request |-> request, elapsed |-> 0]
    /\ fnOut' = Unset
    /\ UnchangedGame

\* the call has not come back: the thread stays inside it
OracleCallBlocks ==
    /\ fnIn # Unset
    /\ fnIn.pc = "oracle"
    /\ fnIn.elapsed < MaxElapsed
    /\ fnIn' = [fnIn EXCEPT !.elapsed = @ + SecondsPerTick]
    /\ UNCHANGED fnOut
    /\ UnchangedGame

\* the call comes back, with a reply or an exception, however late
OracleCallReturns ==
    /\ fnIn # Unset
    /\ fnIn.pc = "oracle"
    /\ \E reply \in BlockedRepliesFor(fnIn.request.action) :
         \E response \in {ResponseAfterCall(fnIn.request, reply)} :
           fnOut' = [status |-> response.status, body |-> response.body,
                     reply |-> reply]
    /\ fnIn' = [fnIn EXCEPT !.pc = "returned"]
    /\ UnchangedGame

NextBlocked == BlockedStart \/ OracleCallBlocks \/ OracleCallReturns

SpecBlocked == InitBlocked /\ [][NextBlocked]_vars

\* C27: a started get-scenario, submit-answer or get-results action has
\* returned its response by the time its oracle call has been outstanding for
\* longer than the action's timeout: the timeout abandons the call and the
\* action completes through the fallback path.
C27_ActionOutlivesOracle ==
    (fnIn # Unset /\ fnIn.elapsed > TimeoutSeconds(fnIn.request.action)) =>
        fnIn.pc = "returned"

\* the texts the oracle produced in the replies of this request
OracleTexts ==
    {[str |-> "A story"], [str |-> "A fate"], [str |-> "An analysis"],
     [str |-> "The door closed behind you."]}

CarriesOracleOutput(entry) ==
    \E field \in DOMAIN entry : entry[field] \in OracleTexts

StoredCodes == {gs.session_code : gs \in game_sessions}

\* the players that belong to the session with this code
MembersOf(session_code) ==
    {pl.id : pl \in {pl \in players :
                        pl.session_id = SessionByCode(session_code).id}}

NamesPlayer == resp.action \in {"scenario", "submit", "check"}

\* the request named an unknown session, or a player who is unknown or does
\* not belong to the session
NamesUnknown ==
    \/ resp.request.session_code \notin StoredCodes
    \/ /\ NamesPlayer
       /\ resp.player_id \notin MembersOf(resp.request.session_code)

\* C29: get-scenario, submit-answer, check-elimination, get-results and fetch
\* session report NotFound when the session they name is unknown or the
\* player they name is unknown or not of that session, and then make no
\* oracle call and change no stored state.
C29_NotFoundForUnknown ==
    (resp # Unset /\ NamesUnknown) =>
        /\ resp.status = 404
        /\ resp.oracle_calls = 0
        /\ ~resp.changed

(***************************************************************************)
(* SpecJoin: join-session requests, one after the other, against the       *)
(* stored sessions.  fnIn holds the players table as join_session fills    *)
(* it, fnOut the last request with its response and the table it found.    *)
(***************************************************************************)
MaxJoined == 6

JoinCodes == {"S1", "S2", "S3", "ZZ"}
JoinNames == {<<"a", "n", "a">>, <<"b", "e", "n">>, <<"A", "n", "a">>}

\* lines 69-72: db.query(Player).filter(session_id == session.id,
\* name == player_name).first()
ExistingPlayerMutant(table, session, player_name) == PyNone

ExistingPlayer(table, session, player_name) ==
    LET found == {i \in 1..Len(table) :
                     /\ table[i].session_id = session.id
                     /\ table[i].name = player_name}
    IN  IF found = {} THEN PyNone ELSE table[SetMin(found)]

\* join_session: the response, and the players table after it
JoinSessionOutcome(table, session_code, player_name) ==
    LET session == SessionByCode(session_code)
        player == [id |-> Len(table) + 1, name |-> player_name,
                   session_id |-> session.id]
    IN  IF session = PyNone
        THEN [response |-> HTTPException(404, "Session not found"),
              table |-> table]
        ELSE IF session.status # "waiting"
        THEN [response |->
                  HTTPException(400, "Session is not accepting new players"),
              table |-> table]
        ELSE IF ExistingPlayer(table, session, player_name) # PyNone
        THEN [response |->
                  HTTPException(400,
                      "Player name already taken in this session"),
              table |-> table]
        ELSE [response |-> Ok([player_id |-> [num |-> player.id],
                               session_code |-> [str |-> session.session_code],
                               player_name |-> player.name]),
              table |-> Append(table, player)]

InitJoin ==
    /\ InitGame
    /\ fnIn = [players |-> <<>>]
    /\ fnOut = Unset

JoinSession ==
    /\ Len(fnIn.players) < MaxJoined
    /\ \E session_code \in JoinCodes, player_name \in JoinNames :
         \E outcome \in {JoinSessionOutcome(fnIn.players, session_code,
                                            player_name)} :
           /\ fnIn' = [players |-> outcome.table]
           /\ fnOut' = [session_code |-> session_code,
                        player_name |-> player_name,
                        status |-> outcome.response.status,
                        body |-> outcome.response.body,
                        before |-> fnIn.players]
    /\ UnchangedGame

NextJoin == JoinSession

SpecJoin == InitJoin /\ [][NextJoin]_vars

\* rows of the table with this name in the session with this code
Holders(table, session_code, player_name) ==
    {i \in 1..Len(table) :
        /\ table[i].session_id = SessionByCode(session_code).id
        /\ table[i].name = player_name}

JoinRefused ==
    /\ fnOut.session_code \in StoredCodes
    /\ \/ SessionByCode(fnOut.session_code).status # "waiting"
       \/ Holders(fnOut.before, fnOut.session_code, fnOut.player_name) # {}

\* C30: after any sequence of join-session requests served one after the
\* other no two players of one session have the same name; a join under a
\* name already taken in the session, or to a session that is not waiting, is
\* rejected with the conflict error (400) and adds no player.
C30_NamesUniquePerSession ==
    /\ "players" \in DOMAIN fnIn =>
           \A i, j \in 1..Len(fnIn.players) :
               (/\ fnIn.players[i].session_id = fnIn.players[j].session_id
                /\ fnIn.players[i].name = fnIn.players[j].name) => i = j
    /\ ("before" \in DOMAIN fnOut /\ JoinRefused) =>
           /\ fnOut.status = 400
           /\ fnIn.players = fnOut.before

C30_Witness ==
    /\ "before" \in DOMAIN fnOut
    /\ fnOut.status = 400
    /\ Holders(fnOut.before, fnOut.session_code, fnOut.player_name) # {}
    /\ \E i, j \in 1..Len(fnIn.players) :
           /\ fnIn.players[i].name = fnIn.players[j].name
           /\ fnIn.players[i].session_id # fnIn.players[j].session_id

(***************************************************************************)
(* SpecJudge: one player of S1 is shown a scenario and submits answers to  *)
(* up to MaxJudged questions.  fnIn holds the player_answers table as the  *)
(* submissions leave it, the scenario get-scenario presented and the       *)
(* number of submissions; fnOut holds what the last submission was judged  *)
(* on.                                                                     *)
(***************************************************************************)
MaxJudged == 3
MaxSubmissions == 4

JudgeAnalysisReplies ==
    {OracleFailure,
     [text |-> PlainText,
      obj |-> AnalysisObject([num |-> 10], Missing, Missing, Missing)]}

\* the stored rows of the player for questions before q with a score < 30
EarlierPoor(table, q) ==
    {i \in RowsOf(table, 1) :
        table[i].question_number < q /\ table[i].score < 30}

\* the stored rows of the player with a score < 30
StoredPoor(table) == {i \in RowsOf(table, 1) : table[i].score < 30}

\* the risk level of the scenario last presented for question q, "" if none
PresentedRisk(presented, q) ==
    IF presented = Unset THEN ""
    ELSE IF presented.question_number # q THEN ""
    ELSE DeathRiskOf(presented.scenario)

\* submit_answer from the scenario to the save (lines 225-317): what the
\* answer is judged on, the judgement, and the write
SubmitJudgement(table, request, scenario_reply, analysis_reply) ==
    LET session == SessionByCode(request.session_code)
        scenario == SubmitScenario(session.theme, request.question_number,
                                   scenario_reply)
        player_history == PlayerHistory(table, request.player_id)
        evaluation == SubmitEvaluation(scenario, request.answer_text,
                                       player_history, analysis_reply)
    IN  [scenario |-> scenario,
         death_risk |-> DeathRiskOf(scenario),
         previous_poor_choices |-> PreviousPoorChoices(player_history),
         evaluation |-> evaluation,
         saved |-> SaveAnswer(table, session, request, evaluation)]

InitJudge ==
    /\ InitGame
    /\ fnIn = [table |-> <<>>, presented |-> Unset, submissions |-> 0]
    /\ fnOut = Unset

\* get-scenario for the player: the scenario of the response is what the
\* player sees
JudgePresent ==
    /\ fnIn.presented = Unset
    /\ fnIn.submissions = 0
    /\ \E question_number \in 1..MaxQuestion, reply \in GameScenarioReplies :
         \E response \in {GetDynamicScenarioOutcome("S1", question_number, 1,
                                                    reply)} :
           fnIn' = [fnIn EXCEPT !.presented =
                        [question_number |-> question_number,
                         scenario |-> response.body]]
    /\ UNCHANGED fnOut
    /\ UnchangedGame

\* submit-answer of the player
JudgeSubmit ==
    /\ fnIn.submissions < MaxSubmissions
    /\ \E question_number \in 1..MaxJudged, ws \in GameWordLists,
          scenario_reply \in SubmitScenarioReplies,
          analysis_reply \in JudgeAnalysisReplies :
         \E request \in {[session_code |-> "S1", player_id |-> 1,
                          question_number |-> question_number,
                          answer_text |-> Join(ws)]} :
           /\ SubmitRejection(fnIn.table, request) = PyNone
           /\ \E judged \in {SubmitJudgement(fnIn.table, request,
                                             scenario_reply,
                                             analysis_reply)} :
                /\ fnIn' = [fnIn EXCEPT
                               !.table = judged.saved.table,
                               !.submissions = @ + 1]
                /\ fnOut' = [question_number |-> question_number,
                             nth |-> fnIn.submissions + 1,
                             resubmission |->
                                 ExistingAnswerId(fnIn.table,
                                     SessionByCode("S1"), 1,
                                     question_number) # 0,
                             earlier_poor |->
                                 Cardinality(EarlierPoor(fnIn.table,
                                                         question_number)),
                             stored_poor |->
                                 Cardinality(StoredPoor(fnIn.table)),
                             presented_risk |->
                                 PresentedRisk(fnIn.presented,
                                               question_number),
                             outage |-> /\ scenario_reply = OracleFailure
                                        /\ analysis_reply = OracleFailure,
                             death_risk |-> judged.death_risk,
                             previous_poor_choices |->
                                 judged.previous_poor_choices,
                             score |-> judged.evaluation.score,
                             instant_death |->
                                 Truthy(judged.evaluation.instant_death)]
    /\ UnchangedGame

NextJudge == JudgePresent \/ JudgeSubmit

SpecJudge == InitJudge /\ [][NextJudge]_vars

Judged == "nth" \in DOMAIN fnOut

\* C31: the priorPoor a submission for question q is evaluated with counts
\* only the player's answers to earlier questions with score < 30; the
\* record for q that a resubmission overwrites is not counted.
C31_PriorPoorExcludesOverwritten ==
    Judged =>
        fnOut.previous_poor_choices = fnOut.earlier_poor

\* C35: when the oracle calls of a submission all fail, the answer is judged
\* at medium risk, and the player is eliminated only if the fallback score is
\* below 25 and the player already has at least 3 stored answers with
\* score < 30; no player is eliminated on one of the first three submissions.
C35_OutageEliminatesOnlyByPattern ==
    (Judged /\ fnOut.outage) =>
        /\ fnOut.death_risk = "medium"
        /\ fnOut.instant_death =>
               /\ fnOut.score.num < 25
               /\ fnOut.stored_poor >= 3
        /\ fnOut.nth <= 3 => ~fnOut.instant_death

C35_Witness ==
    /\ Judged
    /\ fnOut.outage
    /\ fnOut.instant_death
    /\ fnOut.nth = 4
    /\ fnOut.score.num = 0
    /\ fnOut.resubmission

\* C34: an answer for question q is judged against the scenario get-scenario
\* presented to the player for q: the death_risk_level of the hazard decision
\* equals that of the presented scenario, whatever the oracle answers between
\* the two requests.
C34_JudgedOnPresentedScenario ==
    (Judged /\ fnOut.presented_risk # "") =>
        fnOut.death_risk = fnOut.presented_risk

\* the five themes of the archetype table
ArchetypeThemes ==
    {"haunted_house", "zombie_outbreak", "slasher_movie", "alien_invasion",
     "deep_sea_terror"}

\* C32: the canned initial scenario returned on fallback is specific to the
\* requested theme for each of the five themes of the archetype table: no
\* other theme, known or unknown, gets the same scenario.
C32_FallbackPerTheme ==
    (InitialCalled /\ fnIn.reply = OracleFailure
                   /\ fnIn.theme \in ArchetypeThemes) =>
        \A other \in Themes \ {fnIn.theme} :
            fnOut.ret # GetFallbackInitialScenario(other)

\* C33: the scenario get-scenario returns for question_number q has
\* question_number q, also when the route or the service substituted the
\* canned scenario.
C33_ScenarioNumberMatches ==
    ("presented" \in DOMAIN fnIn /\ fnIn.presented # Unset) =>
        Get(fnIn.presented.scenario, "question_number", PyNone)
            = [num |-> fnIn.presented.question_number]

\* the handler of the connection has ended
HandlerEnded(c) == fnIn.tasks[c].pc \in {"done", "crashed"}

\* C36: whenever a viewer's websocket handler has ended, for whatever reason,
\* its connection is registered for no session, so no later broadcast
\* attempts delivery to it.
C36_EndedMeansUnregistered ==
    HubRunning =>
        \A c \in Conns :
            HandlerEnded(c) =>
                \A session_code \in HubSessions :
                    c \notin Elements(Registered(fnIn.active_connections,
                                                 session_code))

=============================================================================
